---- MODULE Spec2Model ----
(***************************************************************************)
(* A model of the plugin runtime of claude-platform:                       *)
(*   - EventBus      (src/src/main_app/core/event_bus.py)                  *)
(*   - ModuleLoader  (src/src/main_app/core/module_loader.py)              *)
(*   - Application   (src/src/main_app/core/application.py)                *)
(* The bus is explored under SpecBus and its lock under SpecLock, the      *)
(* loader with one caller under SpecSeq and with the application thread    *)
(* and the watchdog observer thread under SpecConc, the application with   *)
(* its start, its shutdown and the observer's handler under SpecApp.       *)
(***************************************************************************)
EXTENDS Naturals, Sequences, FiniteSets

VARIABLES
    \* ---- EventBus ----
    subscribers,    \* EventBus._subscribers: topic -> list of callbacks
    pubPc,          \* position of the publish() call in flight
    pubTopic,       \* publish(): event_type
    pubData,        \* publish(): data
    snapshot,       \* publish(): the local list `subscribers` (line 69)
    idx,            \* publish(): position of the for-loop (line 73)
    delivered,      \* observation: the calls callback(data) made by this publish
    pubRet,         \* observation: how publish() ended
    registered,     \* observation: per topic, the registrations still standing, oldest first
    atCall,         \* observation: the registrations of event_type when publish() was called
    pairStage,      \* observation: progress of a subscribe/unsubscribe pair
    pairArg,        \* observation: <<topic, callback>> of that pair
    countsBefore,   \* observation: get_subscriber_count of every topic before the pair
    \* ---- ModuleLoader ----
    modules,        \* ModuleLoader._modules: name -> module object (None: no key)
    module_configs, \* ModuleLoader._module_configs: the names it has a config for
    sys_modules,    \* sys.modules, for the names of the loader
    inst,           \* the module objects created so far: name, file kind, phase
    pc,             \* per thread: position in the call it is making
    nm,             \* per thread: module_name / config.name of the call
    old_module,     \* per thread: reload_module's / unload_module's local
    new_module,     \* per thread: reload_module's / load_module's local
    ret,            \* per thread: the value the call returned, "True" or "False"
    seen,           \* observation: what the thread found at config.path
    calls,          \* observation: the hook calls the thread made in this call
    atEntry,        \* observation: _modules when load_module was called
    \* ---- the watchdog observer of the ModuleLoader ----
    watch_reload,   \* ModuleLoader._watch_reload
    observer,       \* ModuleLoader._observer: "none", "alive" or "stopped"
    watched,        \* ModuleLoader._watched_paths: the directories scheduled
    scheduled,      \* observation: per path, the observer.schedule() calls made
    started,        \* observation: the Observer objects created and started
    \* ---- Application ----
    records,        \* the configured module records, in order: name, enabled
    appPc,          \* position of the application's main thread
    recIdx,         \* _load_modules(): position of the for-loop over the records
    running,        \* Application._running
    reload_context, \* ModuleLoader._reload_context has been set
    published,      \* observation: the lifecycle events published so far, in order
    startLog,       \* observation: per record handled by _load_modules, what happened
    shutItems,      \* ModuleLoader.shutdown(): list(self._modules.items())
    shutLog,        \* observation: the shutdown() hook calls made by ModuleLoader.shutdown()
    budget,         \* notifications and direct calls made so far
    wFile,          \* observer thread: the file whose notification it is handling
    appReq,         \* main thread: the direct registry call it is making
    \* ---- the lock of the EventBus ----
    lock,           \* EventBus._lock: the thread holding it, or None
    lkPc,           \* per thread: position relative to the lock
    lkOp,           \* per thread: the bus method it is in
    lkDepth         \* per thread: callbacks of publish() it is nested in

busVars ==
    <<subscribers, pubPc, pubTopic, pubData, snapshot, idx, delivered, pubRet,
      registered, atCall, pairStage, pairArg, countsBefore>>

loaderVars == <<modules, module_configs, sys_modules, inst>>

threadVars == <<pc, nm, old_module, new_module, ret, seen, calls, atEntry>>

watchVars == <<watch_reload, observer, watched, scheduled, started>>

appVars ==
    <<records, appPc, recIdx, running, reload_context, published, startLog,
      shutItems, shutLog, budget, wFile, appReq>>

lockVars == <<lock, lkPc, lkOp, lkDepth>>

\* everything outside the ModuleLoader
outsideVars == <<busVars, appVars, lockVars>>

vars == <<busVars, loaderVars, threadVars, watchVars, appVars, lockVars>>

None == "None"
\* no module object: what dict.get() gives for a missing key
Absent == 0

\* ---- bounds of the exploration ----
MaxSubs == 2        \* longest subscriber list explored
MaxInst == 3        \* module objects created in one run
MaxCalls == 1       \* file notifications and direct registry calls in one run
MaxDepth == 2       \* callbacks of publish() nested in one another
MaxList == 3        \* longest subscriber list an unsubscribe is applied to

\* "" is a legal topic string; clear("") is told apart from clear(None) below.
Topics == {"", "t"}
Callbacks == {"c1", "c2"}
Data == {"d1", "d2"}
\* what a call callback(data) can do: return, or raise an Exception
Outcomes == {"ok", "raise"}

Names == {"m1", "m2"}
\* the application's thread and the watchdog observer's thread
Threads == {"app", "watcher"}
\* What a module path can hold when it is read:
\*   missing  - nothing is at the path
\*   nospec   - something importlib finds no loader for
\*   broken   - source whose execution raises
\*   both     - source that executes and defines initialize() and shutdown()
\*   bare     - source that executes and defines neither hook
Loadable == {"both", "bare"}
FileKinds == {"missing", "nospec", "broken"} \cup Loadable
InstIds == 1..MaxInst

\* ModuleConfig.path of the record of name n: each module in a directory of
\* its own
PathOf(n) ==
    [dir |-> IF n = "m1" THEN "d1" ELSE "d2", stem |-> n, suffix |-> ".py",
     is_directory |-> FALSE]
\* what a notification of the observer can be about: the source files of the
\* modules, another .py file and a text file next to m1's source, and a
\* directory
Files ==
    {PathOf(n) : n \in Names} \cup
    {[dir |-> "d1", stem |-> "helper", suffix |-> ".py", is_directory |-> FALSE],
     [dir |-> "d1", stem |-> "notes", suffix |-> ".txt", is_directory |-> FALSE],
     [dir |-> "d1", stem |-> "sub", suffix |-> "", is_directory |-> TRUE]}
\* the observer's thread is handling no notification
NoFile == [dir |-> None, stem |-> None, suffix |-> None, is_directory |-> FALSE]
\* the main thread is making no direct call
NoReq == [op |-> None, name |-> None]
\* Path(...).parent
Parent(f) == f.dir
\* the directories _watch_path can be called with
WatchArgs == {Parent(PathOf(n)) : n \in Names}
\* observer.schedule(handler, path) returns or raises
WatchOutcomes == {"ok", "schedule_raises"}
\* the module records a configuration can list
RecordLists ==
    {<<[name |-> "m1", enabled |-> e]>> : e \in BOOLEAN} \cup
    {<<[name |-> "m1", enabled |-> e1], [name |-> "m2", enabled |-> e2]>> :
        e1 \in BOOLEAN, e2 \in BOOLEAN}

----------------------------------------------------------------------------
\* a slip: the last occurrence of x is dropped
RECURSIVE RemoveLast(_, _)
RemoveLast(list, c) ==
    IF list = <<>> THEN <<>>
    ELSE IF list[Len(list)] = c THEN SubSeq(list, 1, Len(list) - 1)
    ELSE RemoveLast(SubSeq(list, 1, Len(list) - 1), c) \o <<list[Len(list)]>>

\* list.remove(x): drops the first occurrence of x
RECURSIVE RemoveFirst(_, _)
RemoveFirst(list, c) ==
    IF list = <<>> THEN <<>>
    ELSE IF Head(list) = c THEN Tail(list)
    ELSE <<Head(list)>> \o RemoveFirst(Tail(list), c)

\* `callback in list`
Contains(list, c) == \E i \in 1..Len(list) : list[i] = c

\* get_subscriber_count(event_type)
SubscriberCount(T) == Len(subscribers[T])

\* all counts, as get_subscriber_count would report them
AllCounts == [T \in Topics |-> SubscriberCount(T)]

----------------------------------------------------------------------------
\* EventBus

\* subscribe(): self._subscribers[event_type].append(callback)
SubscribeList(list, c) == Append(list, c)

\* a slip: every occurrence is dropped, not the first one
RECURSIVE RemoveEvery(_, _)
RemoveEvery(list, c) ==
    IF list = <<>> THEN <<>>
    ELSE IF Head(list) = c THEN RemoveEvery(Tail(list), c)
    ELSE <<Head(list)>> \o RemoveEvery(Tail(list), c)

\* unsubscribe(): if callback in list: list.remove(callback)
UnsubscribeList(list, c) == IF Contains(list, c) THEN RemoveFirst(list, c) ELSE list

\* publish(): subscribers = self._subscribers[event_type].copy(), under the lock
TakeSnapshot(T) == subscribers[T]

\* a slip: the loop walks the live list, no copy is taken
LoopListLive(live, copy) == live

\* publish(): the list the for-loop walks, given the live list and the copy
LoopList(live, copy) == copy

\* a slip: the loop walks the list from its end
LoopItemReversed(list, i) == list[Len(list) + 1 - i]

\* publish(): the callback the i-th iteration of the for-loop calls
LoopItem(list, i) == list[i]

\* a slip: no try/except around the call, the exception leaves the loop
LoopStopsOnRaise(outcome) == outcome = "ok"

\* publish(): try: callback(data) / except Exception: logger.error(...)
\* TRUE when the loop goes on to the next callback after this outcome
LoopContinues(outcome) == outcome \in {"ok", "raise"}

\* clear(): `if event_type:` is false for None and for the empty string
ClearedList(arg, T, list) ==
    IF arg # None /\ arg # ""
    THEN (IF T = arg THEN <<>> ELSE list)
    ELSE <<>>

BusInit ==
    /\ subscribers = [T \in Topics |-> <<>>]
    /\ pubPc = "idle"
    /\ pubTopic = None
    /\ pubData = None
    /\ snapshot = <<>>
    /\ idx = 0
    /\ delivered = <<>>
    /\ pubRet = None
    /\ registered = [T \in Topics |-> <<>>]
    /\ atCall = <<>>
    /\ pairStage = "none"
    /\ pairArg = <<>>
    /\ countsBefore = [T \in Topics |-> 0]

regVars == <<loaderVars, threadVars, watchVars, appVars, lockVars>>

pubLocals == <<pubPc, pubTopic, pubData, snapshot, idx, delivered, pubRet, atCall, regVars>>

\* EventBus.subscribe(event_type, callback), by any thread or by a callback
Subscribe(T, c) ==
    /\ Len(subscribers[T]) < MaxSubs
    /\ subscribers' = [subscribers EXCEPT ![T] = SubscribeList(@, c)]
    /\ registered' = [registered EXCEPT ![T] = Append(@, c)]
    /\ pairStage' = "subscribed"
    /\ pairArg' = <<T, c>>
    /\ countsBefore' = AllCounts
    /\ UNCHANGED pubLocals

\* EventBus.unsubscribe(event_type, callback)
Unsubscribe(T, c) ==
    /\ subscribers' = [subscribers EXCEPT ![T] = UnsubscribeList(@, c)]
    /\ registered' = [registered EXCEPT ![T] = RemoveFirst(@, c)]
    /\ IF pairStage = "subscribed" /\ pairArg = <<T, c>>
       THEN /\ pairStage' = "paired"
            /\ UNCHANGED <<pairArg, countsBefore>>
       ELSE /\ pairStage' = "none"
            /\ pairArg' = <<>>
            /\ countsBefore' = [U \in Topics |-> 0]
    /\ UNCHANGED pubLocals

\* EventBus.clear(event_type), arg = None for clear()
Clear(arg) ==
    /\ subscribers' = [T \in Topics |-> ClearedList(arg, T, subscribers[T])]
    /\ registered' = [T \in Topics |->
                        IF arg \in {None, "", T} THEN <<>> ELSE registered[T]]
    /\ pairStage' = "none"
    /\ pairArg' = <<>>
    /\ countsBefore' = [U \in Topics |-> 0]
    /\ UNCHANGED pubLocals

pairVars == <<pairStage, pairArg, countsBefore>>

\* EventBus.publish(event_type, data): lines 68-69, the copy under the lock
PublishCall(T, d) ==
    /\ pubPc = "idle"
    /\ pubPc' = "deliver"
    /\ pubTopic' = T
    /\ pubData' = d
    /\ snapshot' = TakeSnapshot(T)
    /\ idx' = 1
    /\ delivered' = <<>>
    /\ pubRet' = None
    /\ atCall' = registered[T]
    /\ UNCHANGED <<subscribers, registered, pairVars, regVars>>

\* publish(): one iteration of the for-loop, lines 73-80
Deliver ==
    /\ pubPc = "deliver"
    /\ idx <= Len(LoopList(subscribers[pubTopic], snapshot))
    /\ \E outcome \in Outcomes :
         /\ delivered' = Append(delivered,
                [cb |-> LoopItem(LoopList(subscribers[pubTopic], snapshot), idx),
                 data |-> pubData, outcome |-> outcome])
         /\ IF LoopContinues(outcome)
            THEN /\ idx' = idx + 1
                 /\ UNCHANGED <<pubPc, pubRet>>
            ELSE /\ pubPc' = "done"
                 /\ pubRet' = "raised"
                 /\ UNCHANGED idx
    /\ UNCHANGED <<subscribers, registered, pubTopic, pubData, snapshot, atCall, pairVars, regVars>>

\* publish(): the for-loop is exhausted and publish returns
PublishReturn ==
    /\ pubPc = "deliver"
    /\ idx > Len(LoopList(subscribers[pubTopic], snapshot))
    /\ pubPc' = "done"
    /\ pubRet' = "returned"
    /\ UNCHANGED <<subscribers, registered, pubTopic, pubData, snapshot, idx,
                   delivered, atCall, pairVars, regVars>>

\* the publisher goes on; the locals of the finished call are gone
PublishEnd ==
    /\ pubPc = "done"
    /\ pubPc' = "idle"
    /\ pubTopic' = None
    /\ pubData' = None
    /\ snapshot' = <<>>
    /\ idx' = 0
    /\ delivered' = <<>>
    /\ pubRet' = None
    /\ atCall' = <<>>
    /\ UNCHANGED <<subscribers, registered, pairVars, regVars>>

BusNext ==
    \/ \E T \in Topics, c \in Callbacks : Subscribe(T, c)
    \/ \E T \in Topics, c \in Callbacks : Unsubscribe(T, c)
    \/ \E arg \in Topics \cup {None} : Clear(arg)
    \/ \E T \in Topics, d \in Data : PublishCall(T, d)
    \/ Deliver
    \/ PublishReturn
    \/ PublishEnd

----------------------------------------------------------------------------
\* ModuleLoader

NoInst == [name |-> None, kind |-> None, phase |-> "none"]

\* hasattr(module, "initialize") / hasattr(module, "shutdown")
HasInitialize(m) == m # Absent /\ inst[m].kind = "both"
HasShutdown(m) == m # Absent /\ inst[m].kind = "both"

\* the module object the next importlib.util.module_from_spec(spec) creates
Unused == {i \in InstIds : inst[i].phase = "none"}
NewId == CHOOSE i \in Unused : \A j \in Unused : i <= j

\* get_module(module_name)
GetModule(n) == modules[n]

\* get_loaded_modules(): the keys of _modules
ListLoadedNames == {n \in Names : modules[n] # Absent}

\* a slip: no existence check, and whatever is at the path is registered
LoadPathUnchecked(kind) ==
    CASE kind = "nospec" -> "no_spec"
      [] kind = "broken" -> "exec_raises"
      [] OTHER -> "stored"

\* load_module(): the way through lines 112-158 for what is at config.path:
\*   no_path      module_path.exists() is false, lines 117-119
\*   no_spec      spec or spec.loader is None, lines 125-127
\*   exec_raises  exec_module raises, caught at line 155
\*   stored       lines 139-153
LoadPath(kind) ==
    CASE kind = "missing" -> "no_path"
      [] kind = "nospec" -> "no_spec"
      [] kind = "broken" -> "exec_raises"
      [] OTHER -> "stored"

\* reload_module(): the way through lines 241-248 for what is at config.path;
\* spec_from_file_location does not look at the file, so a missing file shows
\* when exec_module opens it
ReloadPath(kind) ==
    CASE kind = "nospec" -> "no_spec"
      [] kind \in {"missing", "broken"} -> "exec_raises"
      [] OTHER -> "executed"

\* a slip: the success branch keeps the old module in the registry
InstalledKeepsOld(old, new) == old

\* reload_module() line 260: self._modules[module_name] = new_module
Installed(old, new) == new

\* a slip: the rollback drops the name instead of putting the old module back
RestoredIsNothing(old, new) == Absent

\* a slip: the rollback leaves the new module in the registry
RestoredIsNew(old, new) == new

\* reload_module() lines 273-274: the module the rollback puts back
Restored(old, new) == old

\* a slip: the except branch ends in `raise`, the caller gets the exception
RollbackReraises == "raised"

\* a slip: the except branch reports success
RollbackReturnsTrue == "True"

\* reload_module() line 291: return False
RollbackReturn == "False"

RegInit ==
    /\ modules = [n \in Names |-> Absent]
    /\ module_configs = {}
    /\ sys_modules = [n \in Names |-> Absent]
    /\ inst = [i \in InstIds |-> NoInst]
    /\ pc = [t \in Threads |-> "idle"]
    /\ nm = [t \in Threads |-> None]
    /\ old_module = [t \in Threads |-> Absent]
    /\ new_module = [t \in Threads |-> Absent]
    /\ ret = [t \in Threads |-> None]
    /\ seen = [t \in Threads |-> None]
    /\ calls = [t \in Threads |-> <<>>]
    /\ atEntry = [t \in Threads |-> <<>>]

\* thread t calls the loader for name n and gets to `where`
Enter(t, n, where) ==
    /\ pc[t] = "idle"
    /\ pc' = [pc EXCEPT ![t] = where]
    /\ nm' = [nm EXCEPT ![t] = n]

\* the call returns v; op_done is the caller holding the returned value
Leave(t, done, v) ==
    /\ pc' = [pc EXCEPT ![t] = done]
    /\ ret' = [ret EXCEPT ![t] = v]

Done == {"l_done", "u_done", "r_done"}

Goto(t, where) == pc' = [pc EXCEPT ![t] = where]

\* a hook of module m is called and ends with outcome o
Called(t, hook, m, o) ==
    calls' = [calls EXCEPT ![t] = Append(@, [hook |-> hook, id |-> m, outcome |-> o])]

PhaseAfter(hook, o) ==
    IF hook = "shutdown" THEN "down"
    ELSE IF o = "ok" THEN "initialized" ELSE "failed"

\* ---- load_module(config), and the initialize() the application calls ----

\* a slip: config.enabled is not looked at
LoadCallIgnoresEnabled(t, n, enabled) ==
    /\ t = "app"
    /\ Enter(t, n, "l_exec")
    /\ atEntry' = [atEntry EXCEPT ![t] = modules]
    /\ ret' = [ret EXCEPT ![t] = None]
    /\ UNCHANGED <<loaderVars, old_module, new_module, seen, calls, outsideVars, watchVars>>

\* load_module(): lines 104-106, a disabled record is skipped
LoadCall(t, n, enabled) ==
    /\ t = "app"
    /\ Enter(t, n, IF enabled THEN "l_exec" ELSE "l_done")
    /\ atEntry' = [atEntry EXCEPT ![t] = modules]
    /\ ret' = [ret EXCEPT ![t] = IF enabled THEN None ELSE "False"]
    /\ UNCHANGED <<loaderVars, old_module, new_module, seen, calls, outsideVars, watchVars>>

\* load_module(): lines 112-136, the path is read and the module executed
LoadExec(t) ==
    /\ pc[t] = "l_exec"
    /\ \E kind \in FileKinds :
         /\ seen' = [seen EXCEPT ![t] = kind]
         /\ IF LoadPath(kind) \in {"no_path", "no_spec"}
            THEN /\ Leave(t, "l_done", "False")
                 /\ UNCHANGED <<sys_modules, inst, new_module>>
            ELSE /\ Unused # {}
                 /\ sys_modules' = [sys_modules EXCEPT ![nm[t]] = NewId]
                 /\ new_module' = [new_module EXCEPT ![t] = NewId]
                 /\ IF LoadPath(kind) = "exec_raises"
                    THEN /\ inst' = [inst EXCEPT ![NewId] =
                                [name |-> nm[t], kind |-> kind, phase |-> "failed"]]
                         /\ Leave(t, "l_done", "False")
                    ELSE /\ inst' = [inst EXCEPT ![NewId] =
                                [name |-> nm[t], kind |-> kind, phase |-> "created"]]
                         /\ Goto(t, "l_store")
                         /\ UNCHANGED ret
    /\ UNCHANGED <<modules, module_configs, nm, old_module, calls, atEntry, outsideVars, watchVars>>

\* _watch_path(path): lines 360-380, a path already scheduled is left alone;
\* the observer is created and started with the first path
WatchedAfter(path) == watched \cup {path}
ObserverAfter(path) ==
    IF path \notin watched /\ observer = "none" THEN "alive" ELSE observer

\* a slip: no look at _watched_paths before the path is scheduled
ScheduledAfterUnchecked(path) ==
    [scheduled EXCEPT ![path] = IF @ < 2 THEN @ + 1 ELSE @]

\* _watch_path(path): lines 360-362 and 378, observer.schedule(handler, path)
\* is called unless the path is in _watched_paths
ScheduledAfter(path) ==
    IF path \in watched THEN scheduled ELSE [scheduled EXCEPT ![path] = @ + 1]

\* _watch_path(path): lines 366-371, Observer() and start() when there is no
\* observer yet
StartedAfter(path) ==
    IF path \notin watched /\ observer = "none" THEN started + 1 ELSE started

\* load_module(): lines 139-153, the module and its config are stored and,
\* with hot reload, the directory of the source is watched
LoadStore(t) ==
    /\ pc[t] = "l_store"
    /\ modules' = [modules EXCEPT ![nm[t]] = new_module[t]]
    /\ module_configs' = module_configs \cup {nm[t]}
    /\ IF watch_reload
       THEN /\ watched' = WatchedAfter(Parent(PathOf(nm[t])))
            /\ observer' = ObserverAfter(Parent(PathOf(nm[t])))
            /\ scheduled' = ScheduledAfter(Parent(PathOf(nm[t])))
            /\ started' = StartedAfter(Parent(PathOf(nm[t])))
       ELSE UNCHANGED <<watched, observer, scheduled, started>>
    /\ Goto(t, "l_init")
    /\ ret' = [ret EXCEPT ![t] = "True"]
    /\ UNCHANGED <<sys_modules, inst, nm, old_module, new_module, seen, calls, atEntry,
                   watch_reload, outsideVars>>

\* Application._load_modules(): after a successful load, module =
\* get_module(name) and its initialize() hook is called if it has one
AppInitialize(t) ==
    /\ pc[t] = "l_init"
    /\ LET m == GetModule(nm[t]) IN
         IF HasInitialize(m)
         THEN \E o \in Outcomes :
                /\ Called(t, "initialize", m, o)
                /\ inst' = [inst EXCEPT ![m].phase = PhaseAfter("initialize", o)]
         ELSE UNCHANGED <<calls, inst>>
    /\ Goto(t, "l_done")
    /\ UNCHANGED <<modules, module_configs, sys_modules, nm, old_module, new_module,
                   ret, seen, atEntry, outsideVars, watchVars>>

\* ---- unload_module(module_name) ----

\* unload_module(): lines 185-191
UnloadCall(t, n) ==
    /\ t = "app"
    /\ Enter(t, n, IF modules[n] = Absent THEN "u_done" ELSE "u_shutdown")
    /\ ret' = [ret EXCEPT ![t] = IF modules[n] = Absent THEN "False" ELSE None]
    /\ old_module' = [old_module EXCEPT ![t] = modules[n]]
    /\ UNCHANGED <<loaderVars, new_module, seen, calls, atEntry, outsideVars, watchVars>>

\* unload_module(): lines 192-193; a shutdown() that raises is caught at line
\* 204 and the call returns False
UnloadShutdown(t) ==
    /\ pc[t] = "u_shutdown"
    /\ IF HasShutdown(old_module[t])
       THEN \E o \in Outcomes :
              /\ Called(t, "shutdown", old_module[t], o)
              /\ inst' = [inst EXCEPT ![old_module[t]].phase = PhaseAfter("shutdown", o)]
              /\ IF o = "ok"
                 THEN Goto(t, "u_remove") /\ UNCHANGED ret
                 ELSE Leave(t, "u_done", "False")
       ELSE /\ Goto(t, "u_remove")
            /\ UNCHANGED <<calls, inst, ret>>
    /\ UNCHANGED <<modules, module_configs, sys_modules, nm, old_module, new_module,
                   seen, atEntry, outsideVars, watchVars>>

\* a slip: the registry is emptied instead of the one name being deleted
UnloadRemoveClearsAll(t) ==
    /\ pc[t] = "u_remove"
    /\ sys_modules' = [sys_modules EXCEPT ![nm[t]] = Absent]
    /\ modules' = [n \in Names |-> Absent]
    /\ module_configs' = {}
    /\ Leave(t, "u_done", IF modules[nm[t]] = Absent THEN "False" ELSE "True")
    /\ UNCHANGED <<inst, nm, old_module, new_module, seen, calls, atEntry, outsideVars, watchVars>>

\* a slip: the instance is deleted and the stored configuration is kept
UnloadRemoveKeepsConfig(t) ==
    /\ pc[t] = "u_remove"
    /\ sys_modules' = [sys_modules EXCEPT ![nm[t]] = Absent]
    /\ modules' = [modules EXCEPT ![nm[t]] = Absent]
    /\ Leave(t, "u_done", IF modules[nm[t]] = Absent THEN "False" ELSE "True")
    /\ UNCHANGED <<module_configs, inst, nm, old_module, new_module, seen, calls,
                   atEntry, outsideVars, watchVars>>

\* unload_module(): lines 196-202; a del of a key that is gone raises KeyError,
\* caught at line 204
UnloadRemove(t) ==
    /\ pc[t] = "u_remove"
    /\ sys_modules' = [sys_modules EXCEPT ![nm[t]] = Absent]
    /\ IF modules[nm[t]] = Absent
       THEN /\ Leave(t, "u_done", "False")
            /\ UNCHANGED <<modules, module_configs>>
       ELSE /\ modules' = [modules EXCEPT ![nm[t]] = Absent]
            /\ IF nm[t] \in module_configs
               THEN /\ module_configs' = module_configs \ {nm[t]}
                    /\ Leave(t, "u_done", "True")
               ELSE /\ Leave(t, "u_done", "False")
                    /\ UNCHANGED module_configs
    /\ UNCHANGED <<inst, nm, old_module, new_module, seen, calls, atEntry, outsideVars, watchVars>>

\* ---- reload_module(module_name, event_bus, module_config) ----

\* a slip: no look at _module_configs, the reload goes on for any name
ReloadCallUnchecked(t, n) ==
    /\ Enter(t, n, "r_shutdown")
    /\ ret' = [ret EXCEPT ![t] = None]
    /\ old_module' = [old_module EXCEPT ![t] = modules[n]]
    /\ UNCHANGED <<loaderVars, new_module, seen, calls, atEntry, outsideVars, watchVars>>

\* reload_module(): lines 220-225
ReloadCall(t, n) ==
    /\ Enter(t, n, IF n \in module_configs THEN "r_shutdown" ELSE "r_done")
    /\ ret' = [ret EXCEPT ![t] = IF n \in module_configs THEN None ELSE "False"]
    /\ old_module' = [old_module EXCEPT ![t] = IF n \in module_configs THEN modules[n] ELSE Absent]
    /\ UNCHANGED <<loaderVars, new_module, seen, calls, atEntry, outsideVars, watchVars>>

\* a slip: no inner try/except, a shutdown() that raises sends the reload to
\* the rollback
ReloadShutdownAbortsOnRaise(t) ==
    /\ pc[t] = "r_shutdown"
    /\ IF HasShutdown(old_module[t])
       THEN \E o \in Outcomes :
              /\ Called(t, "shutdown", old_module[t], o)
              /\ inst' = [inst EXCEPT ![old_module[t]].phase = PhaseAfter("shutdown", o)]
              /\ IF o = "ok"
                 THEN /\ sys_modules' = [sys_modules EXCEPT ![nm[t]] = Absent]
                      /\ Goto(t, "r_load")
                 ELSE /\ UNCHANGED sys_modules
                      /\ Goto(t, "r_rollback")
       ELSE /\ UNCHANGED <<calls, inst>>
            /\ sys_modules' = [sys_modules EXCEPT ![nm[t]] = Absent]
            /\ Goto(t, "r_load")
    /\ UNCHANGED <<modules, module_configs, nm, old_module, new_module, ret, seen,
                   atEntry, outsideVars, watchVars>>

\* reload_module(): lines 228-238, shutdown() of the old module (an exception
\* is logged and the reload goes on) and del sys.modules[module_name]
ReloadShutdown(t) ==
    /\ pc[t] = "r_shutdown"
    /\ IF HasShutdown(old_module[t])
       THEN \E o \in Outcomes :
              /\ Called(t, "shutdown", old_module[t], o)
              /\ inst' = [inst EXCEPT ![old_module[t]].phase = PhaseAfter("shutdown", o)]
       ELSE UNCHANGED <<calls, inst>>
    /\ sys_modules' = [sys_modules EXCEPT ![nm[t]] = Absent]
    /\ Goto(t, "r_load")
    /\ UNCHANGED <<modules, module_configs, nm, old_module, new_module, ret, seen,
                   atEntry, outsideVars, watchVars>>

\* reload_module(): lines 241-248, the new version is created and executed
ReloadLoad(t) ==
    /\ pc[t] = "r_load"
    /\ \E kind \in FileKinds :
         /\ seen' = [seen EXCEPT ![t] = kind]
         /\ IF ReloadPath(kind) = "no_spec"
            THEN /\ Goto(t, "r_rollback")
                 /\ UNCHANGED <<sys_modules, inst, new_module>>
            ELSE /\ Unused # {}
                 /\ sys_modules' = [sys_modules EXCEPT ![nm[t]] = NewId]
                 /\ new_module' = [new_module EXCEPT ![t] = NewId]
                 /\ IF ReloadPath(kind) = "exec_raises"
                    THEN /\ inst' = [inst EXCEPT ![NewId] =
                                [name |-> nm[t], kind |-> kind, phase |-> "failed"]]
                         /\ Goto(t, "r_rollback")
                    ELSE /\ inst' = [inst EXCEPT ![NewId] =
                                [name |-> nm[t], kind |-> kind, phase |-> "created"]]
                         /\ Goto(t, "r_init")
    /\ UNCHANGED <<modules, module_configs, nm, old_module, ret, calls, atEntry, outsideVars, watchVars>>

\* a slip: an exception of the new module's initialize() is swallowed like the
\* one of shutdown(), and the new module is installed all the same
ReloadInitIgnoresRaise(t) ==
    /\ pc[t] = "r_init"
    /\ IF HasInitialize(new_module[t])
       THEN \E o \in Outcomes :
              /\ Called(t, "initialize", new_module[t], o)
              /\ inst' = [inst EXCEPT ![new_module[t]].phase = PhaseAfter("initialize", o)]
       ELSE UNCHANGED <<calls, inst>>
    /\ Goto(t, "r_install")
    /\ UNCHANGED <<modules, module_configs, sys_modules, nm, old_module, new_module,
                   ret, seen, atEntry, outsideVars, watchVars>>

\* reload_module(): lines 251-257, initialize() of the new module; an
\* exception is re-raised into the except branch of line 265
ReloadInit(t) ==
    /\ pc[t] = "r_init"
    /\ IF HasInitialize(new_module[t])
       THEN \E o \in Outcomes :
              /\ Called(t, "initialize", new_module[t], o)
              /\ inst' = [inst EXCEPT ![new_module[t]].phase = PhaseAfter("initialize", o)]
              /\ Goto(t, IF o = "ok" THEN "r_install" ELSE "r_rollback")
       ELSE /\ Goto(t, "r_install")
            /\ UNCHANGED <<calls, inst>>
    /\ UNCHANGED <<modules, module_configs, sys_modules, nm, old_module, new_module,
                   ret, seen, atEntry, outsideVars, watchVars>>

\* reload_module(): lines 260-263
ReloadInstall(t) ==
    /\ pc[t] = "r_install"
    /\ modules' = [modules EXCEPT ![nm[t]] = Installed(old_module[t], new_module[t])]
    /\ Leave(t, "r_done", "True")
    /\ UNCHANGED <<module_configs, sys_modules, inst, nm, old_module, new_module,
                   seen, calls, atEntry, outsideVars, watchVars>>

\* reload_module(): lines 267-274 and 285-291, the old module is put back if
\* there is one
ReloadRollback(t) ==
    /\ pc[t] = "r_rollback"
    /\ IF old_module[t] # Absent
       THEN /\ sys_modules' = [sys_modules EXCEPT ![nm[t]] = Restored(old_module[t], new_module[t])]
            /\ modules' = [modules EXCEPT ![nm[t]] = Restored(old_module[t], new_module[t])]
            /\ Goto(t, "r_reinit")
            /\ UNCHANGED ret
       ELSE /\ Leave(t, "r_done", RollbackReturn)
            /\ UNCHANGED <<sys_modules, modules>>
    /\ UNCHANGED <<module_configs, inst, nm, old_module, new_module, seen, calls,
                   atEntry, outsideVars, watchVars>>

\* reload_module(): lines 277-291, initialize() of the old module again; an
\* exception is logged; return False
ReloadReinit(t) ==
    /\ pc[t] = "r_reinit"
    /\ IF HasInitialize(old_module[t])
       THEN \E o \in Outcomes :
              /\ Called(t, "initialize", old_module[t], o)
              /\ inst' = [inst EXCEPT ![old_module[t]].phase = PhaseAfter("initialize", o)]
       ELSE UNCHANGED <<calls, inst>>
    /\ Leave(t, "r_done", RollbackReturn)
    /\ UNCHANGED <<modules, module_configs, sys_modules, nm, old_module, new_module,
                   seen, atEntry, outsideVars, watchVars>>

\* a module object nothing refers to any more once thread t has dropped its
\* locals: the interpreter frees it
Dead == [name |-> None, kind |-> None, phase |-> "dead"]

Referenced(t, i) ==
    \/ \E n \in Names : modules[n] = i \/ sys_modules[n] = i
    \/ \E u \in Threads \ {t} : old_module[u] = i \/ new_module[u] = i
    \/ \E k \in 1..Len(shutItems) : shutItems[k].module = i

\* the caller goes on; the locals of the finished call are gone
Return(t) ==
    /\ pc[t] \in Done
    /\ pc' = [pc EXCEPT ![t] = "idle"]
    /\ nm' = [nm EXCEPT ![t] = None]
    /\ old_module' = [old_module EXCEPT ![t] = Absent]
    /\ new_module' = [new_module EXCEPT ![t] = Absent]
    /\ ret' = [ret EXCEPT ![t] = None]
    /\ seen' = [seen EXCEPT ![t] = None]
    /\ calls' = [calls EXCEPT ![t] = <<>>]
    /\ atEntry' = [atEntry EXCEPT ![t] = <<>>]
    /\ inst' = [i \in InstIds |->
                IF inst[i].phase # "none" /\ ~Referenced(t, i) THEN Dead ELSE inst[i]]
    /\ UNCHANGED <<modules, module_configs, sys_modules, outsideVars, watchVars>>

LoaderStep(t) ==
    \/ \E n \in Names, e \in BOOLEAN : LoadCall(t, n, e)
    \/ LoadExec(t)
    \/ LoadStore(t)
    \/ AppInitialize(t)
    \/ \E n \in Names : UnloadCall(t, n)
    \/ UnloadShutdown(t)
    \/ UnloadRemove(t)
    \/ \E n \in Names : ReloadCall(t, n)
    \/ ReloadShutdown(t)
    \/ ReloadLoad(t)
    \/ ReloadInit(t)
    \/ ReloadInstall(t)
    \/ ReloadRollback(t)
    \/ ReloadReinit(t)
    \/ Return(t)

\* one caller: the application's thread alone
SeqNext == LoaderStep("app")

\* the application's thread and the observer's thread
ConcNext == \E t \in Threads : LoaderStep(t)

\* EventBus.__init__(): self._lock = Lock()
LockInit ==
    /\ lock = None
    /\ lkPc = [t \in Threads |-> "idle"]
    /\ lkOp = [t \in Threads |-> None]
    /\ lkDepth = [t \in Threads |-> 0]

\* ModuleLoader.__init__(watch_reload, reload_callback): lines 76-92
WatchInit(w) ==
    /\ watch_reload = w
    /\ observer = "none"
    /\ watched = {}
    /\ scheduled = [p \in WatchArgs |-> 0]
    /\ started = 0

\* the fields of the application for the configuration list recs; pos is
\* "off" where the bus and the loader are used without an Application
AppFields(recs, pos) ==
    /\ records = recs
    /\ appPc = pos
    /\ recIdx = 0
    /\ running = FALSE
    /\ reload_context = FALSE
    /\ published = <<>>
    /\ startLog = <<>>
    /\ shutItems = <<>>
    /\ shutLog = <<>>
    /\ budget = 0
    /\ wFile = NoFile
    /\ appReq = NoReq

\* a bus and a loader (without hot reload) on their own
Init == BusInit /\ RegInit /\ LockInit /\ WatchInit(FALSE) /\ AppFields(<<>>, "off")

SpecBus == Init /\ [][BusNext]_vars

SpecSeq == Init /\ [][SeqNext]_vars

SpecConc == Init /\ [][ConcNext]_vars

\* _watch_path(path) called on its own; a schedule() that raises is caught at
\* line 383 with the observer kept and the path not recorded
WatchPath(path, o) ==
    /\ pc["app"] = "idle"
    /\ o = "ok" \/ path \notin watched
    /\ observer' = ObserverAfter(path)
    /\ started' = StartedAfter(path)
    /\ IF o = "ok"
       THEN /\ watched' = WatchedAfter(path)
            /\ scheduled' = ScheduledAfter(path)
       ELSE UNCHANGED <<watched, scheduled>>
    /\ UNCHANGED <<watch_reload, loaderVars, threadVars, outsideVars>>

\* one caller of a loader with hot reload, which also watches directories
\* itself
WatchNext ==
    \/ SeqNext
    \/ \E p \in WatchArgs, o \in WatchOutcomes : WatchPath(p, o)

\* a loader built with hot reload on, nothing loaded yet
WatchedInit == BusInit /\ RegInit /\ LockInit /\ WatchInit(TRUE) /\ AppFields(<<>>, "off")

SpecWatch == WatchedInit /\ [][WatchNext]_vars

\* the lists of at most n callbacks: what subscribe() calls can have built
ListsUpTo(n) == UNION {[1..k -> Callbacks] : k \in 0..n}

\* a bus some subscribe() calls have already been made on
SubscribedInit ==
    /\ \E lists \in [Topics -> ListsUpTo(MaxList)] :
         /\ subscribers = lists
         /\ registered = lists
    /\ pubPc = "idle"
    /\ pubTopic = None
    /\ pubData = None
    /\ snapshot = <<>>
    /\ idx = 0
    /\ delivered = <<>>
    /\ pubRet = None
    /\ atCall = <<>>
    /\ pairStage = "none"
    /\ pairArg = <<>>
    /\ countsBefore = [T \in Topics |-> 0]

\* subscribe and unsubscribe on that bus, before and after a publish() has
\* taken its copy of a list
UnsubNext ==
    \/ \E T \in Topics, c \in Callbacks : Subscribe(T, c)
    \/ \E T \in Topics, c \in Callbacks : Unsubscribe(T, c)
    \/ \E T \in Topics, d \in Data : PublishCall(T, d)

\* the bus with its lists, next to an empty loader
UnsubInit ==
    SubscribedInit /\ RegInit /\ LockInit /\ WatchInit(FALSE) /\ AppFields(<<>>, "off")

SpecUnsub == UnsubInit /\ [][UnsubNext]_vars

\* the two threads on different names: the observer's thread reloads m1, the
\* application's thread loads m1 and loads, unloads and reloads m2
PairNext ==
    \/ \E n \in Names : LoadCall("app", n, TRUE)
    \/ UnloadCall("app", "m2")
    \/ ReloadCall("app", "m2")
    \/ ReloadCall("watcher", "m1")
    \/ \E t \in Threads :
         \/ LoadExec(t)
         \/ LoadStore(t)
         \/ AppInitialize(t)
         \/ UnloadShutdown(t)
         \/ UnloadRemove(t)
         \/ ReloadShutdown(t)
         \/ ReloadLoad(t)
         \/ ReloadInit(t)
         \/ ReloadInstall(t)
         \/ ReloadRollback(t)
         \/ ReloadReinit(t)
         \/ Return(t)

SpecPair == Init /\ [][PairNext]_vars

----------------------------------------------------------------------------
\* Application and the observer's handler

\* an event handed to EventBus.publish() by the application
Event(type, name, phase) == [type |-> type, name |-> name, phase |-> phase]

\* Application.__init__(): lines 34-68, with modules.hot_reload = w
AppInit(recs, w) ==
    BusInit /\ RegInit /\ LockInit /\ WatchInit(w) /\ AppFields(recs, "created")

\* the locals of the call thread t made are gone, and with them the module
\* objects nothing else refers to
DropLocals(t) ==
    /\ pc' = [pc EXCEPT ![t] = "idle"]
    /\ nm' = [nm EXCEPT ![t] = None]
    /\ old_module' = [old_module EXCEPT ![t] = Absent]
    /\ new_module' = [new_module EXCEPT ![t] = Absent]
    /\ ret' = [ret EXCEPT ![t] = None]
    /\ seen' = [seen EXCEPT ![t] = None]
    /\ calls' = [calls EXCEPT ![t] = <<>>]
    /\ atEntry' = [atEntry EXCEPT ![t] = <<>>]
    /\ inst' = [i \in InstIds |->
                IF inst[i].phase # "none" /\ ~Referenced(t, i) THEN Dead ELSE inst[i]]

\* the process ends: every thread is gone, the observer's daemon thread
\* included, and with them their locals
ProcessEnds ==
    /\ pc' = [t \in Threads |-> "idle"]
    /\ nm' = [t \in Threads |-> None]
    /\ old_module' = [t \in Threads |-> Absent]
    /\ new_module' = [t \in Threads |-> Absent]
    /\ ret' = [t \in Threads |-> None]
    /\ seen' = [t \in Threads |-> None]
    /\ calls' = [t \in Threads |-> <<>>]
    /\ atEntry' = [t \in Threads |-> <<>>]
    /\ inst' = [i \in InstIds |->
                IF inst[i].phase # "none"
                     /\ ~\E n \in Names : modules[n] = i \/ sys_modules[n] = i
                THEN Dead ELSE inst[i]]
    /\ wFile' = NoFile

\* ---- Application.start() and _load_modules() ----

\* start(): lines 214-240, app.started is published
AppStart ==
    /\ appPc = "created"
    /\ appPc' = "loading"
    /\ recIdx' = 1
    /\ published' = Append(published, Event("app.started", None, None))
    /\ UNCHANGED <<records, running, reload_context, startLog, shutItems, shutLog,
                   budget, wFile, appReq>>
    /\ UNCHANGED <<busVars, lockVars, loaderVars, threadVars, watchVars>>

\* _load_modules(): lines 151-165, a disabled record is passed over
StartSkip ==
    /\ appPc = "loading"
    /\ pc["app"] = "idle"
    /\ recIdx <= Len(records)
    /\ ~records[recIdx].enabled
    /\ recIdx' = recIdx + 1
    /\ startLog' = Append(startLog,
            [name |-> records[recIdx].name, kind |-> None, found |-> "disabled",
             initialize |-> None])
    /\ UNCHANGED <<records, appPc, running, reload_context, published, shutItems,
                   shutLog, budget, wFile, appReq>>
    /\ UNCHANGED <<busVars, lockVars, loaderVars, threadVars, watchVars>>

\* _load_modules(): line 168, load_module(config) of an enabled record
StartLoad ==
    /\ appPc = "loading"
    /\ recIdx <= Len(records)
    /\ records[recIdx].enabled
    /\ LoadCall("app", records[recIdx].name, TRUE)

\* what initialize() did in the call the thread is finishing
InitializeOutcome(t) ==
    IF \E k \in 1..Len(calls[t]) : calls[t][k].hook = "initialize"
    THEN calls[t][Len(calls[t])].outcome
    ELSE "nohook"

\* a slip: a record that loaded and initialized is not announced
StartEventsSilent(n, loaded, init) ==
    IF loaded = "True"
    THEN CASE init = "raise" -> <<Event("module.error", n, "initialize")>>
           [] OTHER -> <<>>
    ELSE <<Event("module.error", n, "load")>>

\* _load_modules(): the event published for a record, lines 170-201:
\*   load_module returned True and initialize() returned   module.loaded
\*   load_module returned True and initialize() raised     module.error, initialize
\*   load_module returned True, no initialize()            nothing (line 193 logs)
\*   load_module returned False                            module.error, load
StartEvents(n, loaded, init) ==
    IF loaded = "True"
    THEN CASE init = "ok" -> <<Event("module.loaded", n, None)>>
           [] init = "raise" -> <<Event("module.error", n, "initialize")>>
           [] OTHER -> <<>>
    ELSE <<Event("module.error", n, "load")>>

\* a slip: a record that fails ends the loop
NextRecordStopsAtFailure(k, loaded) ==
    IF loaded = "True" THEN k + 1 ELSE Len(records) + 1

\* _load_modules(): lines 151 and 194-208, whatever happened to the record the
\* for-loop goes on with the next one
NextRecord(k, loaded) == k + 1

\* _load_modules(): lines 170-208, the outcome of the record is published and
\* the loop goes to the next record
StartReport ==
    /\ appPc = "loading"
    /\ pc["app"] = "l_done"
    /\ published' = published \o StartEvents(nm["app"], ret["app"], InitializeOutcome("app"))
    /\ startLog' = Append(startLog,
            [name |-> nm["app"],
             kind |-> seen["app"],
             found |-> IF ret["app"] = "True" THEN "loaded" ELSE "failed",
             initialize |-> InitializeOutcome("app")])
    /\ recIdx' = NextRecord(recIdx, ret["app"])
    /\ DropLocals("app")
    /\ UNCHANGED <<records, appPc, running, reload_context, shutItems, shutLog,
                   budget, wFile, appReq>>
    /\ UNCHANGED <<busVars, lockVars, watchVars, modules, module_configs, sys_modules>>

\* _load_modules(): line 211, set_reload_context(event_bus, module_configs_dict)
StartSetContext ==
    /\ appPc = "loading"
    /\ pc["app"] = "idle"
    /\ recIdx > Len(records)
    /\ reload_context' = TRUE
    /\ appPc' = "loaded"
    /\ UNCHANGED <<records, recIdx, running, published, startLog, shutItems, shutLog,
                   budget, wFile, appReq>>
    /\ UNCHANGED <<busVars, lockVars, loaderVars, threadVars, watchVars>>

\* start(): lines 245-249, self._running = True and the main loop is entered
StartRun ==
    /\ appPc = "loaded"
    /\ running' = TRUE
    /\ appPc' = "running"
    /\ UNCHANGED <<records, recIdx, reload_context, published, startLog, shutItems,
                   shutLog, budget, wFile, appReq>>
    /\ UNCHANGED <<busVars, lockVars, loaderVars, threadVars, watchVars>>

\* _signal_handler(): lines 317-327, SIGINT or SIGTERM arrives in the main
\* thread while start() is still in _load_modules or just after it:
\* shutdown() returns at once because _running is still False (lines 297-298)
\* and sys.exit(0) ends the process; the daemon observer thread ends with it
SignalDuringStart ==
    /\ appPc \in {"loading", "loaded"}
    /\ ~running
    /\ appPc' = "process_exit"
    /\ ProcessEnds
    /\ UNCHANGED <<records, recIdx, running, reload_context, published, startLog,
                   shutItems, shutLog, budget, appReq>>
    /\ UNCHANGED <<busVars, lockVars, watchVars, modules, module_configs, sys_modules>>

\* ---- calls made on the registry while the application runs ----

\* the running application's thread is about to call load_module(record k),
\* unload_module(name) or reload_module(name)
AppRequest(op, n) ==
    /\ appPc = "running"
    /\ pc["app"] = "idle"
    /\ appReq = NoReq
    /\ budget < MaxCalls
    /\ budget' = budget + 1
    /\ appReq' = [op |-> op, name |-> n]
    /\ UNCHANGED <<records, appPc, recIdx, running, reload_context, published,
                   startLog, shutItems, shutLog, wFile>>
    /\ UNCHANGED <<busVars, lockVars, loaderVars, threadVars, watchVars>>

\* load_module(config) with a configured record
DirectLoad ==
    /\ appReq # NoReq
    /\ appReq.op = "load"
    /\ \E k \in 1..Len(records) :
         /\ records[k].name = appReq.name
         /\ LoadCall("app", records[k].name, records[k].enabled)

\* reload_module(name) called on the registry, not by the observer
DirectReload ==
    /\ appReq # NoReq
    /\ appReq.op = "reload"
    /\ ReloadCall("app", appReq.name)

\* unload_module(name) called on the registry
DirectUnload ==
    /\ appReq # NoReq
    /\ appReq.op = "unload"
    /\ UnloadCall("app", appReq.name)

\* the direct call has returned to its caller
DirectReturn ==
    /\ appPc = "running"
    /\ appReq # NoReq
    /\ pc["app"] \in Done
    /\ appReq' = NoReq
    /\ DropLocals("app")
    /\ UNCHANGED <<records, appPc, recIdx, running, reload_context, published,
                   startLog, shutItems, shutLog, budget, wFile>>
    /\ UNCHANGED <<busVars, lockVars, watchVars, modules, module_configs, sys_modules>>

\* ---- ModuleReloadHandler.on_modified() and reload_module_by_path() ----

\* on_modified(event): lines 49-62, a directory or a file that is not .py is
\* dropped; the observer delivers events of the directories scheduled
OnModified(f) ==
    /\ appPc # "process_exit"
    /\ observer = "alive"
    /\ Parent(f) \in watched
    /\ pc["watcher"] = "idle"
    /\ wFile = NoFile
    /\ budget < MaxCalls
    /\ budget' = budget + 1
    /\ wFile' = IF ~f.is_directory /\ f.suffix = ".py" THEN f ELSE NoFile
    /\ UNCHANGED <<records, appPc, recIdx, running, reload_context, published,
                   startLog, shutItems, shutLog, appReq>>
    /\ UNCHANGED <<busVars, lockVars, loaderVars, threadVars, watchVars>>

\* a slip: every file of the module's directory counts as the module's source
ResolvesInDirectory(n, f) == Parent(PathOf(n)) = Parent(f)

\* reload_module_by_path(): line 315, Path(config.path) == Path(file_path)
Resolves(n, f) == PathOf(n) = f

\* reload_module_by_path(): lines 314-324, the module of the file is reloaded
ReloadByPath ==
    /\ wFile # NoFile
    /\ \E n \in module_configs :
         /\ Resolves(n, wFile)
         /\ ReloadCall("watcher", n)

\* reload_module_by_path(): the loop ends without a match
ReloadByPathNoMatch ==
    /\ wFile # NoFile
    /\ pc["watcher"] = "idle"
    /\ ~\E n \in module_configs : Resolves(n, wFile)
    /\ wFile' = NoFile
    /\ UNCHANGED <<records, appPc, recIdx, running, reload_context, published,
                   startLog, shutItems, shutLog, budget, appReq>>
    /\ UNCHANGED <<busVars, lockVars, loaderVars, threadVars, watchVars>>

\* a slip: the callback is told the reload succeeded whatever it returned
ReloadEventIgnoresResult(n, success) == Event("module.reloaded", n, None)

\* Application._on_module_reload(module_name, success): lines 119-135
ReloadEvent(n, success) ==
    IF success = "True"
    THEN Event("module.reloaded", n, None)
    ELSE Event("module.reload_failed", n, None)

\* reload_module_by_path(): lines 327-328, the reload callback is called with
\* the result and the handler returns
ReloadCallback ==
    /\ wFile # NoFile
    /\ pc["watcher"] = "r_done"
    /\ published' = Append(published, ReloadEvent(nm["watcher"], ret["watcher"]))
    /\ wFile' = NoFile
    /\ DropLocals("watcher")
    /\ UNCHANGED <<records, appPc, recIdx, running, reload_context, startLog,
                   shutItems, shutLog, budget, appReq>>
    /\ UNCHANGED <<busVars, lockVars, watchVars, modules, module_configs, sys_modules>>

\* ---- Application.shutdown() and ModuleLoader.shutdown() ----

\* the names of _modules in the order of the dict, with their modules
RECURSIVE ItemsOf(_)
ItemsOf(names) ==
    IF names = <<>> THEN <<>>
    ELSE (IF modules[Head(names)] # Absent
          THEN <<[name |-> Head(names), module |-> modules[Head(names)]]>>
          ELSE <<>>) \o ItemsOf(Tail(names))

\* a slip: shutdown() has no guard and runs whenever it is called
ShutdownRunsAlways(r) == TRUE

\* Application.shutdown(): lines 297-298, `if not self._running: return`
ShutdownRuns(r) == r

\* a slip: the bus is cleared before the event is published
ShutdownBodyClearsFirst ==
    /\ running' = FALSE
    /\ subscribers' = [T \in Topics |-> ClearedList(None, T, subscribers[T])]
    /\ registered' = [T \in Topics |-> <<>>]
    /\ published' = Append(published, Event("app.shutdown", None, None))
    /\ shutItems' = ItemsOf(<<"m1", "m2">>)
    /\ appPc' = "s_hooks"
    /\ UNCHANGED <<records, recIdx, reload_context, startLog, shutLog, budget, wFile,
                   appReq>>
    /\ UNCHANGED <<pubPc, pubTopic, pubData, snapshot, idx, delivered, pubRet, atCall,
                   pairVars>>
    /\ UNCHANGED <<lockVars, loaderVars, threadVars, watchVars>>

\* Application.shutdown(): lines 300-312, and ModuleLoader.shutdown() line 393,
\* list(self._modules.items())
ShutdownBody ==
    /\ running' = FALSE
    /\ published' = Append(published, Event("app.shutdown", None, None))
    /\ shutItems' = ItemsOf(<<"m1", "m2">>)
    /\ appPc' = "s_hooks"
    /\ UNCHANGED <<records, recIdx, reload_context, startLog, shutLog, budget, wFile,
                   appReq>>
    /\ UNCHANGED <<busVars, lockVars, loaderVars, threadVars, watchVars>>

\* Application.shutdown() called while the application runs, by the signal
\* handler or by whoever holds the application
ShutdownBegin ==
    /\ appPc = "running"
    /\ ShutdownRuns(running)
    /\ pc["app"] = "idle"
    /\ appReq = NoReq
    /\ ShutdownBody

\* Application.shutdown() called again after it has returned: sys.exit(0) of
\* the signal handler (line 327) raises SystemExit in _run(), whose finally
\* block calls shutdown() (line 293); then the process ends
ShutdownAgain ==
    /\ appPc = "exited"
    /\ IF ShutdownRuns(running)
       THEN ShutdownBody
       ELSE /\ appPc' = "process_exit"
            /\ ProcessEnds
            /\ UNCHANGED <<records, recIdx, running, reload_context, published,
                           startLog, shutItems, shutLog, budget, appReq>>
            /\ UNCHANGED <<busVars, lockVars, watchVars, modules, module_configs,
                           sys_modules>>

\* a loop that an exception of a hook would leave
RestAfterStopsOnRaise(items, o) == IF o = "raise" THEN <<>> ELSE Tail(items)

\* ModuleLoader.shutdown(): lines 393-402, the try/except is inside the for
\* loop, so the loop goes on with the next item whatever the hook did
RestAfter(items, o) == Tail(items)

\* ModuleLoader.shutdown(): lines 393-402, shutdown() of the next module of
\* the list; an exception is logged
ShutdownHook ==
    /\ appPc = "s_hooks"
    /\ shutItems # <<>>
    /\ LET m == Head(shutItems).module IN
         IF HasShutdown(m)
         THEN \E o \in Outcomes :
                /\ inst' = [inst EXCEPT ![m].phase = PhaseAfter("shutdown", o)]
                /\ shutLog' = Append(shutLog,
                        [name |-> Head(shutItems).name, id |-> m, outcome |-> o])
                /\ shutItems' = RestAfter(shutItems, o)
         ELSE /\ UNCHANGED <<inst, shutLog>>
              /\ shutItems' = RestAfter(shutItems, "ok")
    /\ UNCHANGED <<records, appPc, recIdx, running, reload_context, published,
                   startLog, budget, wFile, appReq>>
    /\ UNCHANGED <<busVars, lockVars, threadVars, watchVars, modules, module_configs,
                   sys_modules>>

\* ModuleLoader.shutdown(): lines 405-408, the observer is stopped; join() gives
\* up after two seconds, so a handler in flight may still be running
ShutdownStopObserver ==
    /\ appPc = "s_hooks"
    /\ shutItems = <<>>
    /\ observer' = IF observer = "alive" THEN "stopped" ELSE observer
    /\ appPc' = "s_clear"
    /\ UNCHANGED <<watch_reload, watched, scheduled, started>>
    /\ UNCHANGED <<records, recIdx, running, reload_context, published, startLog,
                   shutItems, shutLog, budget, wFile, appReq>>
    /\ UNCHANGED <<busVars, lockVars, loaderVars, threadVars>>

\* ModuleLoader.shutdown(): lines 411-412, both dicts are cleared
ShutdownClearRegistry ==
    /\ appPc = "s_clear"
    /\ modules' = [n \in Names |-> Absent]
    /\ module_configs' = {}
    /\ appPc' = "s_bus"
    /\ UNCHANGED <<sys_modules, inst>>
    /\ UNCHANGED <<records, recIdx, running, reload_context, published, startLog,
                   shutItems, shutLog, budget, wFile, appReq>>
    /\ UNCHANGED <<busVars, lockVars, threadVars, watchVars>>

\* Application.shutdown(): line 313, self.event_bus.clear()
ShutdownClearBus ==
    /\ appPc = "s_bus"
    /\ subscribers' = [T \in Topics |-> ClearedList(None, T, subscribers[T])]
    /\ registered' = [T \in Topics |-> <<>>]
    /\ appPc' = "exited"
    /\ UNCHANGED <<pubPc, pubTopic, pubData, snapshot, idx, delivered, pubRet, atCall,
                   pairVars>>
    /\ UNCHANGED <<records, recIdx, running, reload_context, published, startLog,
                   shutItems, shutLog, budget, wFile, appReq>>
    /\ UNCHANGED <<lockVars, loaderVars, threadVars, watchVars>>

AppNext ==
    \/ AppStart
    \/ StartSkip
    \/ StartLoad
    \/ LoadExec("app")
    \/ LoadStore("app")
    \/ AppInitialize("app")
    \/ StartReport
    \/ StartSetContext
    \/ StartRun
    \/ SignalDuringStart
    \/ \E n \in Names : AppRequest("load", n)
    \/ \E n \in Names : AppRequest("reload", n)
    \/ DirectLoad
    \/ DirectReload
    \/ DirectReturn
    \/ \E f \in Files : OnModified(f)
    \/ ReloadByPath
    \/ ReloadByPathNoMatch
    \/ \E t \in Threads :
         \/ ReloadShutdown(t)
         \/ ReloadLoad(t)
         \/ ReloadInit(t)
         \/ ReloadInstall(t)
         \/ ReloadRollback(t)
         \/ ReloadReinit(t)
    \/ ReloadCallback
    \/ ShutdownBegin
    \/ ShutdownHook
    \/ ShutdownStopObserver
    \/ ShutdownClearRegistry
    \/ ShutdownClearBus
    \/ ShutdownAgain

\* a module's initialize(event_bus, config) subscribes a callback of the
\* module to a topic
InitializeSubscribes(T, c) ==
    /\ appPc = "loading"
    /\ pc["app"] = "l_init"
    /\ Subscribe(T, c)

\* an application without hot reload whose modules subscribe to the bus:
\* start(), then shutdown() and the second shutdown() of the finally block
StopNext ==
    \/ AppStart
    \/ StartSkip
    \/ StartLoad
    \/ LoadExec("app")
    \/ LoadStore("app")
    \/ \E T \in Topics, c \in Callbacks : InitializeSubscribes(T, c)
    \/ AppInitialize("app")
    \/ StartReport
    \/ StartSetContext
    \/ StartRun
    \/ ShutdownBegin
    \/ ShutdownHook
    \/ ShutdownStopObserver
    \/ ShutdownClearRegistry
    \/ ShutdownClearBus
    \/ ShutdownAgain

SpecStop ==
    /\ \E recs \in RecordLists : AppInit(recs, FALSE)
    /\ [][StopNext]_vars

\* the application's thread alone: start, then load_module, unload_module and
\* reload_module called one at a time, then shutdown; no observer thread
OneNext ==
    \/ AppStart
    \/ StartSkip
    \/ StartLoad
    \/ LoadExec("app")
    \/ LoadStore("app")
    \/ AppInitialize("app")
    \/ StartReport
    \/ StartSetContext
    \/ StartRun
    \/ \E n \in Names : AppRequest("load", n)
    \/ \E n \in Names : AppRequest("unload", n)
    \/ \E n \in Names : AppRequest("reload", n)
    \/ DirectLoad
    \/ DirectUnload
    \/ DirectReload
    \/ DirectReturn
    \/ UnloadShutdown("app")
    \/ UnloadRemove("app")
    \/ ReloadShutdown("app")
    \/ ReloadLoad("app")
    \/ ReloadInit("app")
    \/ ReloadInstall("app")
    \/ ReloadRollback("app")
    \/ ReloadReinit("app")
    \/ ShutdownBegin
    \/ ShutdownHook
    \/ ShutdownStopObserver
    \/ ShutdownClearRegistry
    \/ ShutdownClearBus
    \/ ShutdownAgain

SpecOne ==
    /\ \E recs \in RecordLists : AppInit(recs, FALSE)
    /\ [][OneNext]_vars

\* an application with a configuration list and hot reload on or off
SpecApp ==
    /\ \E recs \in RecordLists, w \in BOOLEAN : AppInit(recs, w)
    /\ [][AppNext]_vars

----------------------------------------------------------------------------
\* The lock of the EventBus: which thread holds EventBus._lock while threads
\* call the bus, also from inside the callbacks publish() runs

BusOps == {"subscribe", "unsubscribe", "publish", "clear", "get_subscriber_count"}

\* thread t, outside the bus or inside a callback, calls a method of the bus
\* and reaches its `with self._lock:`
BusCall(t, op) ==
    /\ lkPc[t] \in {"idle", "callback"}
    /\ op = "publish" => lkDepth[t] < MaxDepth
    /\ lkPc' = [lkPc EXCEPT ![t] = "acquire"]
    /\ lkOp' = [lkOp EXCEPT ![t] = op]
    /\ UNCHANGED <<lock, lkDepth>>
    /\ UNCHANGED <<busVars, loaderVars, threadVars, watchVars, appVars>>

\* `with self._lock:` is entered: threading.Lock is not reentrant, the thread
\* waits until nobody holds it
LockAcquire(t) ==
    /\ lkPc[t] = "acquire"
    /\ lock = None
    /\ lock' = t
    /\ lkPc' = [lkPc EXCEPT ![t] = "critical"]
    /\ UNCHANGED <<lkOp, lkDepth>>
    /\ UNCHANGED <<busVars, loaderVars, threadVars, watchVars, appVars>>

\* subscribe 44-45, unsubscribe 56-58, clear 90-95, get_subscriber_count
\* 107-108: the with-block ends and the method returns
LockRelease(t) ==
    /\ lkPc[t] = "critical"
    /\ lkOp[t] # "publish"
    /\ lock' = None
    /\ lkPc' = [lkPc EXCEPT ![t] = IF lkDepth[t] > 0 THEN "callback" ELSE "idle"]
    /\ lkOp' = [lkOp EXCEPT ![t] = None]
    /\ UNCHANGED lkDepth
    /\ UNCHANGED <<busVars, loaderVars, threadVars, watchVars, appVars>>

\* a slip: the for-loop of publish() stands inside the with-block
LockHeldThroughLoop(t) == t

\* publish(): the with-block of lines 68-69 ends before the for-loop of line
\* 73: nobody holds the lock while callbacks run
LockAfterSnapshot(t) == None

\* publish(): lines 68-73, the copy is taken and the loop over it begins
PublishSnapshotTaken(t) ==
    /\ lkPc[t] = "critical"
    /\ lkOp[t] = "publish"
    /\ lock' = LockAfterSnapshot(t)
    /\ lkPc' = [lkPc EXCEPT ![t] = "loop"]
    /\ lkOp' = [lkOp EXCEPT ![t] = None]
    /\ lkDepth' = [lkDepth EXCEPT ![t] = @ + 1]
    /\ UNCHANGED <<busVars, loaderVars, threadVars, watchVars, appVars>>

\* publish(): line 75, callback(data) is called
CallbackCall(t) ==
    /\ lkPc[t] = "loop"
    /\ lkPc' = [lkPc EXCEPT ![t] = "callback"]
    /\ UNCHANGED <<lock, lkOp, lkDepth>>
    /\ UNCHANGED <<busVars, loaderVars, threadVars, watchVars, appVars>>

\* publish(): lines 75-80, the callback returned or raised; the loop goes on
CallbackEnd(t) ==
    /\ lkPc[t] = "callback"
    /\ lkPc' = [lkPc EXCEPT ![t] = "loop"]
    /\ UNCHANGED <<lock, lkOp, lkDepth>>
    /\ UNCHANGED <<busVars, loaderVars, threadVars, watchVars, appVars>>

\* publish(): the loop is over and publish returns, to the callback that
\* called it or to the thread's own code
PublishLoopEnd(t) ==
    /\ lkPc[t] = "loop"
    /\ lkDepth' = [lkDepth EXCEPT ![t] = @ - 1]
    /\ lkPc' = [lkPc EXCEPT ![t] = IF lkDepth[t] > 1 THEN "callback" ELSE "idle"]
    /\ UNCHANGED <<lock, lkOp>>
    /\ UNCHANGED <<busVars, loaderVars, threadVars, watchVars, appVars>>

LockNext ==
    \E t \in Threads :
        \/ \E op \in BusOps : BusCall(t, op)
        \/ LockAcquire(t)
        \/ LockRelease(t)
        \/ PublishSnapshotTaken(t)
        \/ CallbackCall(t)
        \/ CallbackEnd(t)
        \/ PublishLoopEnd(t)

\* two threads using one bus
SpecLock == Init /\ [][LockNext]_vars

\* C19: the lock of the bus is held only inside the with-blocks that change or
\* copy a subscriber list, never while a callback runs: no thread waits for
\* the lock while holding it, no thread holds it outside a with-block (in
\* particular not while one of its callbacks runs or is blocked), so a thread
\* waiting for the lock waits only for another thread's with-block.
C19_LockNotHeldInCallbacks ==
    /\ \A t \in Threads : lkPc[t] # "critical" => lock # t
    /\ lock # None => lkPc[lock] = "critical"

\* C19 witness: inside a callback of its own publish() the application's
\* thread has called subscribe and holds the lock for it, while a callback on
\* the observer's thread is still running.
C19_Witness ==
    /\ lkPc["app"] = "critical"
    /\ lkOp["app"] = "subscribe"
    /\ lkDepth["app"] = 1
    /\ lock = "app"
    /\ lkPc["watcher"] = "callback"

----------------------------------------------------------------------------
\* Claims about the EventBus (checked under SpecBus)

\* the callbacks of a list of recorded calls
RECURSIVE CallbacksOf(_)
CallbacksOf(log) ==
    IF log = <<>> THEN <<>> ELSE <<Head(log).cb>> \o CallbacksOf(Tail(log))

\* how often c occurs in a list
RECURSIVE Occurrences(_, _)
Occurrences(list, c) ==
    IF list = <<>> THEN 0
    ELSE (IF Head(list) = c THEN 1 ELSE 0) + Occurrences(Tail(list), c)

OtherTopic(T) == CHOOSE U \in Topics : U # T

\* C5 as stated: when publish(T, data) has returned, every callback that was in
\* T's list at the call has been called exactly once, and no other callback.
C5_Original ==
    pubPc = "done" =>
        \A c \in Callbacks :
            Occurrences(CallbacksOf(delivered), c) =
                (IF Contains(atCall, c) THEN 1 ELSE 0)

\* C5 amended: when publish(T, data) has returned, the calls it made are, in
\* order, one call with data per entry of T's registrations at the moment of
\* the call, oldest registration first (a callback registered k times is
\* called k times); a callback registered only for other topics is not called.
C5_DeliveryInRegistrationOrder ==
    pubPc = "done" =>
        /\ CallbacksOf(delivered) = atCall
        /\ \A i \in 1..Len(delivered) : delivered[i].data = pubData
        /\ \A c \in Callbacks :
             ~Contains(atCall, c) => Occurrences(CallbacksOf(delivered), c) = 0

\* C5 witness: a publish that returned after calling twice the callback that
\* was registered twice, while another one is registered for the other topic
\* only.
C5_Witness ==
    /\ pubPc = "done"
    /\ Len(delivered) = 2
    /\ delivered[1].cb = delivered[2].cb
    /\ \E c \in Callbacks :
         /\ ~Contains(atCall, c)
         /\ Contains(registered[OtherTopic(pubTopic)], c)

\* C6: when a callback raises during publish(T, data), every later callback of
\* the snapshot is still called with data and publish returns normally.
C6_RaiseDoesNotStopDelivery ==
    pubPc = "done" =>
        /\ pubRet = "returned"
        /\ \A i \in 1..Len(delivered) :
             delivered[i].outcome = "raise" =>
                /\ Len(delivered) = Len(snapshot)
                /\ \A j \in (i + 1)..Len(snapshot) :
                     /\ delivered[j].cb = snapshot[j]
                     /\ delivered[j].data = pubData

\* C6 witness: a finished publish whose first callback raised and whose second
\* callback was called after it.
C6_Witness ==
    /\ pubPc = "done"
    /\ Len(delivered) = 2
    /\ delivered[1].outcome = "raise"

\* the calls of the publish in flight: those made, then those still to make
DeliveryPlan ==
    CallbacksOf(delivered) \o
        SubSeq(LoopList(subscribers[pubTopic], snapshot), idx,
               Len(LoopList(subscribers[pubTopic], snapshot)))

\* C7: from the snapshot on, the callbacks a publish delivers to and their
\* order are those registered at the snapshot, whatever subscribe, unsubscribe
\* or clear does to the topic while the delivery is in flight.
C7_SnapshotFixesDelivery ==
    pubPc \in {"deliver", "done"} => DeliveryPlan = atCall

\* C7 witness: a delivery in flight, one callback called and one to go, while
\* the topic's live list is no longer the list of the snapshot.
C7_Witness ==
    /\ pubPc = "deliver"
    /\ idx = 2
    /\ Len(snapshot) = 2
    /\ subscribers[pubTopic] # snapshot

\* C8: subscribe(T, c) immediately followed by unsubscribe(T, c) leaves the
\* subscriber count of T and of every other topic as before the pair.
C8_SubscribeUnsubscribeKeepsCounts ==
    pairStage = "paired" => \A T \in Topics : SubscriberCount(T) = countsBefore[T]

\* C8 witness: a finished pair on a topic where c was registered before the
\* pair already, while the other topic has a subscriber too.
C8_Witness ==
    /\ pairStage = "paired"
    /\ Contains(subscribers[pairArg[1]], pairArg[2])
    /\ SubscriberCount(OtherTopic(pairArg[1])) > 0

----------------------------------------------------------------------------
\* Claims about the ModuleLoader with one caller (checked under SpecSeq)

\* thread t made the hook call `hook` on module m with outcome o in this call
Made(t, hook, m, o) ==
    \E k \in 1..Len(calls[t]) : calls[t][k] = [hook |-> hook, id |-> m, outcome |-> o]

\* the reload of thread t found a new version that does not materialize, or
\* one whose initialize() raised
NewVersionFailed(t) ==
    \/ seen[t] \in {"missing", "nospec", "broken"}
    \/ Made(t, "initialize", new_module[t], "raise")

\* C1: reload_module(name) of a loaded module whose new version fails to
\* materialize or to initialize rolls back: when it returns, get_module(name)
\* is the module that was active before the call, the name is still listed,
\* the old module's initialize() hook (when it has one) was called again as
\* the last hook call, and the call returned False.
C1_FailedReloadRollsBack ==
    \A t \in Threads :
        (pc[t] = "r_done" /\ old_module[t] # Absent /\ NewVersionFailed(t)) =>
            /\ GetModule(nm[t]) = old_module[t]
            /\ nm[t] \in ListLoadedNames
            /\ ret[t] = "False"
            /\ HasInitialize(old_module[t]) =>
                 /\ calls[t] # <<>>
                 /\ calls[t][Len(calls[t])].hook = "initialize"
                 /\ calls[t][Len(calls[t])].id = old_module[t]

\* C1 witness: a reload that returned after the new module's initialize()
\* raised and the old module, which has the hook, was initialized again.
C1_Witness ==
    \E t \in Threads :
        /\ pc[t] = "r_done"
        /\ old_module[t] # Absent
        /\ Made(t, "initialize", new_module[t], "raise")
        /\ Made(t, "initialize", old_module[t], "ok")

\* C2: reload_module(name) of a loaded module whose new version materializes
\* and initializes without error returns True, and get_module(name) is then
\* the new module, not the old one.
C2_SuccessfulReloadInstallsNew ==
    \A t \in Threads :
        (pc[t] = "r_done" /\ old_module[t] # Absent /\ seen[t] \in Loadable
            /\ ~Made(t, "initialize", new_module[t], "raise")) =>
            /\ ret[t] = "True"
            /\ new_module[t] # Absent
            /\ GetModule(nm[t]) = new_module[t]
            /\ GetModule(nm[t]) # old_module[t]

\* C2 witness: a reload that returned True after the new module's
\* initialize() returned.
C2_Witness ==
    \E t \in Threads :
        /\ pc[t] = "r_done"
        /\ old_module[t] # Absent
        /\ Made(t, "initialize", new_module[t], "ok")
        /\ ret[t] = "True"

\* C9: load_module of an enabled record whose path does not exist returns
\* False, and _modules is as it was at the call: every module loaded before is
\* still the same object, and the record's name, not loaded before, is not
\* listed.
C9_LoadOfMissingPathFails ==
    \A t \in Threads :
        (pc[t] = "l_done" /\ seen[t] = "missing") =>
            /\ ret[t] = "False"
            /\ modules = atEntry[t]
            /\ atEntry[t][nm[t]] = Absent => nm[t] \notin ListLoadedNames

\* C9 witness: a load of a missing path that returned while the other module
\* is loaded and the record's name is not listed.
C9_Witness ==
    \E t \in Threads :
        /\ pc[t] = "l_done"
        /\ seen[t] = "missing"
        /\ nm[t] \notin ListLoadedNames
        /\ ListLoadedNames # {}

\* C10: on every path of reload_module, the value returned is True exactly
\* when, at the return, the active module of the name is the module this call
\* created.
C10_ReturnTellsNewIsActive ==
    \A t \in Threads :
        pc[t] = "r_done" =>
            (ret[t] = "True" <=>
                (new_module[t] # Absent /\ GetModule(nm[t]) = new_module[t]))

\* C10 witness: a reload that returned after the rollback's initialize() of
\* the old module raised as well.
C10_Witness ==
    \E t \in Threads :
        /\ pc[t] = "r_done"
        /\ Made(t, "initialize", new_module[t], "raise")
        /\ Made(t, "initialize", old_module[t], "raise")

----------------------------------------------------------------------------
\* Claims about concurrent callers of the ModuleLoader (checked under SpecConc)

\* thread t is inside reload_module, past the shutdown of the old module and
\* before the install or the end of the rollback
InReload(t) == pc[t] \in {"r_load", "r_init", "r_install", "r_rollback", "r_reinit"}

\* the modules of name n whose initialize() returned and whose shutdown() has
\* not been called since
Live(n) == {i \in InstIds : inst[i].name = n /\ inst[i].phase = "initialized"}

\* C3: while two reloads of one name are in progress there are never two
\* distinct modules of that name both initialized and not shut down (the
\* claim's first half; its second half, that the registry ends with the module
\* of one attempt or the original, rests on it).
C3_OneLiveInstance ==
    \A t, u \in Threads :
        (t # u /\ InReload(t) /\ InReload(u) /\ nm[t] = nm[u]) =>
            Cardinality(Live(nm[t])) <= 1

\* C4: reloads of one name are serialized: at most one reload of a name is
\* between its first step and its last step at any time.
C4_ReloadsSerialized ==
    \A t, u \in Threads :
        (t # u /\ InReload(t) /\ InReload(u)) => nm[t] # nm[u]

----------------------------------------------------------------------------
\* Claims about the Application (checked under SpecApp)

\* the events of a type published so far that name n
EventsOf(type, n) ==
    {k \in 1..Len(published) : published[k].type = type /\ published[k].name = n}

\* the shutdown() calls ModuleLoader.shutdown() made on modules of name n
ShutdownCallsOf(n) == {k \in 1..Len(shutLog) : shutLog[k].name = n}

\* the configuration lists one enabled module, m1 in the role of 'producer',
\* whose source is valid and has both hooks and whose initialize() returned;
\* no file changed and no direct call was made
OneProducer ==
    /\ records = <<[name |-> "m1", enabled |-> TRUE]>>
    /\ startLog = <<[name |-> "m1", kind |-> "both", found |-> "loaded",
                      initialize |-> "ok"]>>
    /\ budget = 0

\* C11: with one enabled valid module having both hooks, after Start the
\* loaded names are exactly that module and one module.loaded event naming it
\* has been published; after Shutdown no name is loaded and the module's
\* shutdown() hook has been called exactly once in total.
C11_EndToEnd ==
    OneProducer =>
        /\ appPc \in {"loaded", "running"} =>
              /\ ListLoadedNames = {"m1"}
              /\ Cardinality(EventsOf("module.loaded", "m1")) = 1
        /\ appPc = "exited" =>
              /\ ListLoadedNames = {}
              /\ Cardinality(EventsOf("module.loaded", "m1")) = 1
              /\ Cardinality(ShutdownCallsOf("m1")) = 1
              /\ \A t \in Threads : calls[t] = <<>>

\* C11 witness: the application with the one producer has started and shut
\* down, and the hook was called.
C11_Witness ==
    /\ OneProducer
    /\ appPc = "exited"
    /\ Len(shutLog) = 1
    /\ shutLog[1].outcome = "ok"

\* the names of the records configured with enabled = false
DisabledNames == {records[k].name : k \in {j \in 1..Len(records) : ~records[j].enabled}}

\* C12: a record with enabled = false never has an instance: whatever Start,
\* load_module, reload_module and file notifications did, its name is not
\* among the loaded names, get_module gives nothing for it, no module object
\* of that name exists (so none of its hooks can have been called), and no
\* directory is watched for it.
C12_DisabledNeverLoaded ==
    \A n \in DisabledNames :
        /\ n \notin ListLoadedNames
        /\ GetModule(n) = Absent
        /\ n \notin module_configs
        /\ sys_modules[n] = Absent
        /\ \A i \in InstIds : inst[i].name # n
        /\ \A k \in 1..Len(shutLog) : shutLog[k].name # n

\* C12 witness: m1 enabled and loaded by Start, m2 disabled; load_module was
\* called with m2's record and returned False, and m1 alone is listed.
C12_Witness ==
    /\ DisabledNames = {"m2"}
    /\ appPc = "running"
    /\ appReq = [op |-> "load", name |-> "m2"]
    /\ pc["app"] = "l_done"
    /\ ret["app"] = "False"
    /\ ListLoadedNames = {"m1"}

\* C13 as stated, for a Reload of a loaded module called directly on the
\* registry: when reload_module(name) has returned, a module.reloaded event
\* naming the module has been published if it returned True and a
\* module.reload_failed event if it returned False.
C13_DirectReloadAnnounced ==
    (pc["app"] = "r_done" /\ appReq.op = "reload" /\ old_module["app"] # Absent) =>
        \E k \in 1..Len(published) : published[k] = ReloadEvent(nm["app"], ret["app"])

\* the events of Start that name n
StartEventsOf(n) ==
    {k \in 1..Len(published) :
        published[k].name = n /\ published[k].type \in {"module.loaded", "module.error"}}

\* the event the claim expects for a record Start has handled
ExpectedStartEvent(entry) ==
    IF entry.found = "failed" THEN Event("module.error", entry.name, "load")
    ELSE IF entry.initialize = "raise" THEN Event("module.error", entry.name, "initialize")
    ELSE Event("module.loaded", entry.name, None)

\* C14 as stated: every enabled record Start has handled is reported by
\* exactly one lifecycle event naming it: module.loaded when the load
\* succeeded and initialize() (if the module has it) did not raise,
\* module.error with phase load when the load failed, module.error with phase
\* initialize when initialize() raised.
C14_StartReportsEveryRecord ==
    \A j \in 1..Len(startLog) :
        startLog[j].found # "disabled" =>
            /\ Cardinality(StartEventsOf(startLog[j].name)) = 1
            /\ \A k \in StartEventsOf(startLog[j].name) :
                   published[k] = ExpectedStartEvent(startLog[j])

\* C15 as stated: when unload_module(name) of a loaded module whose
\* shutdown() raised has returned, the module is gone: the name is not listed,
\* get_module(name) gives nothing and the binding in sys.modules is removed.
C15_UnloadDespiteRaisingShutdown ==
    (pc["app"] = "u_done" /\ Made("app", "shutdown", old_module["app"], "raise")) =>
        /\ nm["app"] \notin ListLoadedNames
        /\ GetModule(nm["app"]) = Absent
        /\ sys_modules[nm["app"]] = Absent

\* thread t takes a step of reload_module
ReloadStepOf(t) ==
    /\ pc[t] \in {"r_shutdown", "r_load", "r_init", "r_install", "r_rollback", "r_reinit"}
    /\ pc'[t] # pc[t]

\* after Start every record has been handled, and each enabled record whose
\* source was valid and whose initialize() did not raise is loaded
StartIsolated ==
    appPc \in {"loaded", "running"} =>
        /\ Len(startLog) = Len(records)
        /\ \A j \in 1..Len(startLog) :
             /\ startLog[j].name = records[j].name
             /\ (startLog[j].kind \in Loadable /\ startLog[j].initialize # "raise") =>
                    startLog[j].name \in ListLoadedNames

\* no step of a reload of one name touches the registry entry, or the module,
\* of another name
ReloadIsolated ==
    \A t \in Threads :
        ReloadStepOf(t) =>
            \A m \in Names \ {nm[t]} :
                /\ modules'[m] = modules[m]
                /\ modules[m] # Absent => inst'[modules[m]] = inst[modules[m]]

\* C16: error isolation: after Start each enabled record with a valid source
\* and an initialize() that did not raise is loaded, however many other
\* records failed and wherever they stand in the list; and a Reload of one
\* module, failed or not, leaves the active module of every other name as it
\* was.
C16_ErrorIsolation == []StartIsolated /\ [][ReloadIsolated]_vars

\* C16 witness: Start has run over two enabled records; the first failed to
\* load and the second is loaded.
C16_Witness ==
    /\ appPc = "running"
    /\ Len(startLog) = 2
    /\ startLog[1].found = "failed"
    /\ startLog[2].found = "loaded"
    /\ ListLoadedNames = {"m2"}

\* the observer still delivers file notifications, each of which can end in a
\* reload_module
WatcherCanTrigger == observer = "alive" /\ watched # {}

\* C17 as stated: Shutdown stops the watcher before it unloads: once
\* Shutdown has called the shutdown() hook of a module, the watcher can no
\* longer trigger a Reload.
C17_WatcherStoppedBeforeHooks ==
    shutLog # <<>> => ~WatcherCanTrigger

----------------------------------------------------------------------------
\* Further claims about one caller of the ModuleLoader (checked under SpecSeq)

\* C18: no failure inside load_module, unload_module or reload_module (missing
\* path, load error, a hook that raises, a rollback re-initialize that raises)
\* reaches the caller as an exception: whenever one of them has ended, the
\* caller holds True or False.
C18_AlwaysReturnsBoolean ==
    \A t \in Threads : pc[t] \in Done => ret[t] \in {"True", "False"}

\* C18 witness: a reload_module whose new source raised when executed and
\* whose rollback re-initialize raised as well has returned False.
C18_Witness ==
    /\ pc["app"] = "r_done"
    /\ seen["app"] = "broken"
    /\ Made("app", "shutdown", old_module["app"], "raise")
    /\ Made("app", "initialize", old_module["app"], "raise")
    /\ ret["app"] = "False"

----------------------------------------------------------------------------
\* Claims about the change watcher (checked under SpecApp)

\* C20 as stated: a notification for a .py file is resolved to the loaded
\* module whose source directory holds the file: whenever the handler is
\* about to look up a changed .py file that lies in the directory of a loaded
\* module's source, the lookup finds that module (and reloads it).
C20_ResolvedByDirectory ==
    \A n \in ListLoadedNames \cap module_configs :
        (wFile # NoFile /\ pc["watcher"] = "idle" /\ Parent(wFile) = Parent(PathOf(n))) =>
            Resolves(n, wFile)

----------------------------------------------------------------------------
\* Claims about the reload callback (checked under SpecApp)

\* the calls of the reload callback so far: each publishes one event
CallbackCalls ==
    {k \in 1..Len(published) :
        published[k].type \in {"module.reloaded", "module.reload_failed"}}

\* what the reload callback publishes when called with (n, success)
CallbackEvent(n, success) ==
    Event(IF success = "True" THEN "module.reloaded" ELSE "module.reload_failed", n, None)

\* one step of the program, seen from the reload callback
CallbackDiscipline ==
    \* the callback is called only when the reload_module of the notification
    \* has returned, with its name and the value it returned
    /\ published' # published /\ CallbackCalls' # CallbackCalls =>
          /\ pc["watcher"] = "r_done"
          /\ wFile # NoFile
          /\ published' = Append(published, CallbackEvent(nm["watcher"], ret["watcher"]))
    \* the handling of a notification that resolved to a module ends with
    \* exactly one call, that of a notification that resolved to none with none
    \* (unless the process ends first)
    /\ (wFile # NoFile /\ wFile' = NoFile /\ appPc' # "process_exit") =>
          Cardinality(CallbackCalls') =
              Cardinality(CallbackCalls) + (IF pc["watcher"] = "r_done" THEN 1 ELSE 0)
    \* the observer's thread leaves a reload only through the callback
    /\ (pc["watcher"] = "r_done" /\ pc'["watcher"] # "r_done") => wFile' = NoFile

----------------------------------------------------------------------------
\* Further claims about reload_module with one caller (checked under SpecSeq)

\* the last hook call thread t made in its call
LastCall(t) == calls[t][Len(calls[t])]

\* C22: when a reload_module of a loaded module has failed and the
\* re-initialize of the old module in the rollback raised as well, the call
\* returns False (it does not raise) and the old module is the active one:
\* get_module gives the old module, not the new one, and the name is listed.
C22_RollbackKeepsOldWhenReinitRaises ==
    \A t \in Threads :
        (/\ pc[t] = "r_done"
         /\ old_module[t] # Absent
         /\ calls[t] # <<>>
         /\ LastCall(t) = [hook |-> "initialize", id |-> old_module[t], outcome |-> "raise"]) =>
            /\ ret[t] = "False"
            /\ GetModule(nm[t]) = old_module[t]
            /\ GetModule(nm[t]) # new_module[t]
            /\ nm[t] \in ListLoadedNames

\* C22 witness: the new source was gone, the rollback re-initialize of the old
\* module raised, and the call has returned.
C22_Witness ==
    /\ pc["app"] = "r_done"
    /\ seen["app"] = "missing"
    /\ old_module["app"] # Absent
    /\ calls["app"] # <<>>
    /\ LastCall("app") = [hook |-> "initialize", id |-> old_module["app"], outcome |-> "raise"]
    /\ GetModule(nm["app"]) = old_module["app"]

\* thread t is inside reload_module and has not yet installed or rolled back
ReloadInProgress(t) == pc[t] \in {"r_shutdown", "r_load", "r_init", "r_install"}

\* C23: during a reload_module and when it has returned, get_module(name)
\* is the newly created module only if that module's initialize() (when it
\* has one) has returned without raising; and as long as the reload has not
\* installed or rolled back, get_module(name) is the previous module.
C23_NewModuleVisibleOnlyInitialized ==
    \A t \in Threads :
        /\ (/\ pc[t] \in {"r_shutdown", "r_load", "r_init", "r_install",
                          "r_rollback", "r_reinit", "r_done"}
            /\ new_module[t] # Absent
            /\ GetModule(nm[t]) = new_module[t]) =>
               (HasInitialize(new_module[t]) =>
                    Made(t, "initialize", new_module[t], "ok"))
        /\ ReloadInProgress(t) => GetModule(nm[t]) = old_module[t]

\* C23 witness: the new module exists and its initialize() has just raised;
\* get_module still gives the old one.
C23_Witness ==
    /\ pc["app"] = "r_rollback"
    /\ new_module["app"] # Absent
    /\ Made("app", "initialize", new_module["app"], "raise")
    /\ GetModule(nm["app"]) = old_module["app"]
    /\ old_module["app"] # Absent

----------------------------------------------------------------------------
\* Claims about the observer's thread and the application's thread (checked
\* under SpecApp)

\* C24 as stated, in its consequence for the install: the registry is never
\* read by one thread while another removes records, so when a
\* reload_module has ended with a module installed for its name, the record
\* of that name is still in the registry.
C24_NoInstallForRemovedRecord ==
    \A t \in Threads :
        (pc[t] = "r_done" /\ GetModule(nm[t]) # Absent) => nm[t] \in module_configs

\* C25 as stated: a reload triggered by the observer runs only when the
\* reload context (event bus and per-module configs) has been set.
C25_ReloadOnlyWithContext ==
    pc["watcher"] # "idle" => reload_context

----------------------------------------------------------------------------
\* Further claims about load_module (checked under SpecSeq)

\* C26 as stated: a load_module that returned False has retained nothing:
\* _modules is as it was at the call, and the binding of the name in
\* sys.modules is the registry's active module or missing with it.
C26_FailedLoadRetainsNothing ==
    (pc["app"] = "l_done" /\ ret["app"] = "False") =>
        /\ modules = atEntry["app"]
        /\ sys_modules[nm["app"]] = modules[nm["app"]]

----------------------------------------------------------------------------
\* Further claims about concurrent callers of the ModuleLoader (checked under
\* SpecConc)

\* the name thread t is working on in this step
NameOfStep(t) == IF nm[t] # None THEN nm[t] ELSE nm'[t]

\* a step of thread t's load, unload or reload leaves every other name as it
\* is: its registry entry, its config entry, its binding and its active module
OtherNamesUntouched ==
    \A t \in Threads :
        pc'[t] # pc[t] =>
            \A m \in Names \ {NameOfStep(t)} :
                /\ modules'[m] = modules[m]
                /\ sys_modules'[m] = sys_modules[m]
                /\ (m \in module_configs') = (m \in module_configs)
                /\ modules[m] # Absent => inst'[modules[m]] = inst[modules[m]]

\* C27: operations on different names are independent: no step of a load,
\* unload or reload of one name reads or writes what the registry holds for
\* another name, so every interleaving gives each operation the results of
\* running them one after the other; and no thread ever has to wait, whatever
\* hook another thread is in.
C27_DifferentNamesIndependent ==
    /\ [][OtherNamesUntouched]_vars
    /\ [](\A t \in Threads : ENABLED LoaderStep(t))

\* C27 witness: unload_module('m2') has returned True on the application's
\* thread while the observer's thread is in the initialize() of the new m1.
C27_Witness ==
    /\ pc["watcher"] = "r_init"
    /\ nm["watcher"] = "m1"
    /\ HasInitialize(new_module["watcher"])
    /\ pc["app"] = "u_done"
    /\ nm["app"] = "m2"
    /\ ret["app"] = "True"
    /\ GetModule("m1") = old_module["watcher"]

----------------------------------------------------------------------------
\* Claims about Shutdown (checked under SpecApp)

\* C28 as stated: once Application.shutdown() has returned the observer's
\* thread is gone: it is in no reload, and no name is loaded.
C28_QuietAfterShutdown ==
    appPc = "exited" => (pc["watcher"] = "idle" /\ ListLoadedNames = {})

\* C29 as stated: when shutdown is requested through the signal handler while
\* Start is loading modules, every module loaded at that moment is shut down
\* and removed from the registry before the process exits.
C29_SignalUnloadsEverything ==
    appPc = "process_exit" =>
        /\ ListLoadedNames = {}
        /\ \A i \in InstIds : inst[i].phase # "initialized"

\* the names of the items Shutdown still has to visit
RECURSIVE NamesOfItems(_)
NamesOfItems(items) ==
    IF items = <<>> THEN {} ELSE {Head(items).name} \cup NamesOfItems(Tail(items))

\* what each step of ModuleLoader.shutdown() does to the list of items, to the
\* record of the hooks it invoked and to the registry
ShutdownSteps ==
    /\ (appPc = "running" /\ appPc' = "s_hooks") =>
          /\ NamesOfItems(shutItems') = ListLoadedNames
          /\ Len(shutItems') = Cardinality(ListLoadedNames)
          /\ \A i \in 1..Len(shutItems') :
                shutItems'[i].module = modules[shutItems'[i].name]
    /\ (appPc = "s_hooks" /\ shutItems' # shutItems) =>
          /\ shutItems' = Tail(shutItems)
          /\ IF HasShutdown(Head(shutItems).module)
             THEN /\ Len(shutLog') = Len(shutLog) + 1
                  /\ SubSeq(shutLog', 1, Len(shutLog)) = shutLog
                  /\ shutLog'[Len(shutLog')].name = Head(shutItems).name
                  /\ shutLog'[Len(shutLog')].id = Head(shutItems).module
             ELSE shutLog' = shutLog
    /\ (appPc = "s_hooks" /\ appPc' # "s_hooks") => shutItems = <<>>
    /\ shutLog' # shutLog => (appPc = "s_hooks" /\ shutItems' # shutItems)
    /\ (appPc = "s_clear" /\ appPc' # "s_clear") => ListLoadedNames' = {}

\* C30: Shutdown visits every module that is loaded when it begins, invokes
\* the shutdown hook of each one exactly once whether or not an earlier hook
\* raised, and leaves no name loaded when it has cleared the registry.
C30_ShutdownBestEffort ==
    /\ [](\A i, j \in 1..Len(shutLog) : shutLog[i].name = shutLog[j].name => i = j)
    /\ [][ShutdownSteps]_vars

C30_Witness ==
    /\ appPc = "s_bus"
    /\ Len(shutLog) = 2
    /\ shutLog[1].outcome = "raise"
    /\ shutLog[2].outcome = "ok"
    /\ ListLoadedNames = {}

----------------------------------------------------------------------------
\* Claims about a module whose initialize() raised (checked under SpecSeq)

\* the call of unload_module returns in this step, for a module whose
\* initialize() had raised when the application called it after the load
UnloadOfFailedReturns ==
    /\ pc["app"] \in {"u_shutdown", "u_remove"}
    /\ old_module["app"] # Absent
    /\ inst[old_module["app"]].phase = "failed"
    /\ pc'["app"] = "u_done"

\* C31 as stated: a module whose initialize() raised stays loaded, and a later
\* unload_module(name) invokes its shutdown hook and removes it: when the call
\* returns the name is not listed any more.
C31_FailedInitializeStillUnloads ==
    [][UnloadOfFailedReturns => nm["app"] \notin ListLoadedNames']_vars

----------------------------------------------------------------------------
\* Claims about the order of the steps of one reload (checked under SpecSeq)

\* the positions in the hook calls of thread t's current call where `hook`
\* was called
HookCalls(t, hook) == {k \in 1..Len(calls[t]) : calls[t][k].hook = hook}

\* C32: within one reload_module the old module's shutdown() comes first and
\* is called exactly once (when it has one), nothing is materialized before
\* it, the new module's initialize() comes after both, and a shutdown() that
\* raised does not abort the reload: the new version is still materialized
\* and, if it loads and initializes, installed with True returned.
C32_ReloadStepOrder ==
    \A t \in Threads :
        /\ pc[t] = "r_shutdown" => (calls[t] = <<>> /\ new_module[t] = Absent /\ seen[t] = None)
        /\ (pc[t] \in {"r_load", "r_init", "r_install", "r_rollback", "r_reinit", "r_done"}
              /\ HasShutdown(old_module[t])) =>
                /\ calls[t] # <<>>
                /\ calls[t][1].hook = "shutdown"
                /\ calls[t][1].id = old_module[t]
                /\ HookCalls(t, "shutdown") = {1}
        /\ pc[t] = "r_load" => (new_module[t] = Absent /\ HookCalls(t, "initialize") = {})
        /\ (pc[t] \in {"r_init", "r_install"}) => (new_module[t] # Absent /\ seen[t] \in Loadable)
        /\ pc[t] = "r_init" => HookCalls(t, "initialize") = {}
        /\ (pc[t] = "r_done" /\ old_module[t] # Absent) => seen[t] # None
        /\ (pc[t] = "r_done" /\ Made(t, "shutdown", old_module[t], "raise")
              /\ seen[t] \in Loadable
              /\ ~Made(t, "initialize", new_module[t], "raise")) =>
                /\ ret[t] = "True"
                /\ GetModule(nm[t]) = new_module[t]
                /\ HasInitialize(new_module[t]) => Made(t, "initialize", new_module[t], "ok")

C32_Witness ==
    /\ pc["app"] = "r_done"
    /\ Made("app", "shutdown", old_module["app"], "raise")
    /\ Made("app", "initialize", new_module["app"], "ok")
    /\ ret["app"] = "True"
    /\ GetModule(nm["app"]) = new_module["app"]

----------------------------------------------------------------------------
\* Claims about clear and unsubscribe (checked under SpecBus)

\* C33 as stated: clear(T) with a topic string T given, the empty string
\* included, empties T's list and leaves the list of every other topic as it
\* was.
C33_ClearTopicLeavesOthers ==
    [][\A T \in Topics :
          Clear(T) =>
            /\ subscribers'[T] = <<>>
            /\ \A U \in Topics \ {T} : subscribers'[U] = subscribers[U]]_vars

\* the place of the earliest registration of c in a list that holds it
FirstIndex(list, c) ==
    CHOOSE i \in 1..Len(list) : list[i] = c /\ \A j \in 1..(i - 1) : list[j] # c

\* the list without its i-th entry, the others in their order
WithoutIndex(list, i) == SubSeq(list, 1, i - 1) \o SubSeq(list, i + 1, Len(list))

UnsubscribeEffect ==
    \A T \in Topics, c \in Callbacks :
        Unsubscribe(T, c) =>
            /\ \A U \in Topics \ {T} : subscribers'[U] = subscribers[U]
            /\ IF Contains(subscribers[T], c)
               THEN /\ subscribers'[T] =
                        WithoutIndex(subscribers[T], FirstIndex(subscribers[T], c))
                    /\ Occurrences(subscribers'[T], c) =
                        Occurrences(subscribers[T], c) - 1
               ELSE subscribers'[T] = subscribers[T]

\* C34: unsubscribe(T, c) takes the earliest registration of c out of T's
\* list and keeps the other entries in their order, so that c registered k
\* times stays registered k-1 times; when c is not in T's list no list
\* changes.
C34_UnsubscribeRemovesEarliest == [][UnsubscribeEffect]_vars

\* C34 witness: a publish took its copy <<c, d, c>> and the live list is
\* <<d, c>> now: c, registered twice around d, was unsubscribed once.
C34_Witness ==
    /\ pubPc = "deliver"
    /\ Len(snapshot) = 3
    /\ snapshot[1] = snapshot[3]
    /\ snapshot[1] # snapshot[2]
    /\ subscribers[pubTopic] = <<snapshot[2], snapshot[3]>>

----------------------------------------------------------------------------
\* Claims about the watched directories (checked under SpecWatch)

\* a call of _watch_path for a path already watched changes nothing
RepeatedWatchIsNoOp ==
    \A p \in WatchArgs :
        (p \in watched /\ WatchPath(p, "ok")) =>
            UNCHANGED <<watched, observer, scheduled, started>>

\* C35: whatever calls of _watch_path were made, by load_module or directly,
\* each directory was scheduled on the observer at most once, a call for a
\* watched directory schedules nothing, and at most one observer was created
\* and started, with the first watch and not before.
C35_WatchIsIdempotent ==
    /\ [](\A p \in WatchArgs :
            /\ scheduled[p] <= 1
            /\ scheduled[p] = 1 <=> p \in watched)
    /\ [](started <= 1 /\ (started = 0 <=> observer = "none")
            /\ (watched # {} => started = 1))
    /\ [][RepeatedWatchIsNoOp]_vars

\* C35 witness: load_module of m1 ran again when m1 was already loaded, so
\* its directory was given to _watch_path a second time; both directories
\* are watched and there is one observer.
C35_Witness ==
    /\ pc["app"] = "l_init"
    /\ atEntry["app"][nm["app"]] # Absent
    /\ watched = WatchArgs
    /\ \A p \in WatchArgs : scheduled[p] = 1
    /\ started = 1

----------------------------------------------------------------------------
\* Claims about ignored file notifications (checked under SpecApp)

\* everything but the handler's own file and the count of notifications
AllButNotification ==
    <<busVars, lockVars, loaderVars, threadVars, watchVars, records, appPc, recIdx,
      running, reload_context, published, startLog, shutItems, shutLog, appReq>>

\* one step of the program, seen from the handling of a notification
NotificationSteps ==
    \* the observer's thread enters reload_module only for a .py file that is
    \* the source of a module the registry holds, and for that module
    /\ (pc["watcher"] = "idle" /\ pc'["watcher"] # "idle") =>
          /\ wFile # NoFile
          /\ ~wFile.is_directory
          /\ wFile.suffix = ".py"
          /\ nm'["watcher"] \in module_configs
          /\ PathOf(nm'["watcher"]) = wFile
    \* a notification about a directory or about a file that is not .py is
    \* dropped by on_modified
    /\ (budget' # budget /\ appReq' = appReq /\ wFile' = NoFile) =>
          UNCHANGED AllButNotification
    \* a notification about a .py file that is no module's source is dropped
    \* by reload_module_by_path
    /\ (wFile # NoFile /\ wFile' = NoFile /\ pc["watcher"] = "idle"
          /\ appPc' # "process_exit") =>
          /\ ~\E n \in module_configs : PathOf(n) = wFile
          /\ UNCHANGED AllButNotification

\* C36: a notification about a directory, about a file that is not .py or
\* about a .py file that is no module's source starts no reload, calls no
\* hook and no reload callback, publishes nothing and leaves the registry as
\* it is; without hot reload nothing is watched and the observer's thread
\* never reloads.
C36_ForeignNotificationsIgnored ==
    /\ [][NotificationSteps]_vars
    /\ [](wFile # NoFile => (~wFile.is_directory /\ wFile.suffix = ".py"))
    /\ [](~watch_reload =>
            (watched = {} /\ observer = "none" /\ wFile = NoFile
                /\ pc["watcher"] = "idle"))

\* C36 witness: with m1 loaded and its directory watched, the handler is
\* looking up another .py file of that directory.
C36_Witness ==
    /\ wFile # NoFile
    /\ wFile.stem = "helper"
    /\ "m1" \in module_configs
    /\ pc["watcher"] = "idle"
    /\ observer = "alive"

----------------------------------------------------------------------------
\* Claims about repeated shutdown (checked under SpecApp)

\* the app.shutdown events published so far
ShutdownEvents == {k \in 1..Len(published) : published[k].type = "app.shutdown"}

\* C37: once the application runs, a call of Application.shutdown() after the
\* first one does nothing: no second app.shutdown event is published, no
\* module object has its shutdown hook called twice by the shutdowns, and the
\* call made after the first one has returned changes no field of the
\* application, of the registry or of the bus.
C37_ShutdownIdempotent ==
    /\ [](Cardinality(ShutdownEvents) <= 1)
    /\ [](\A i, j \in 1..Len(shutLog) : shutLog[i].id = shutLog[j].id => i = j)
    /\ [][appPc = "exited" /\ appPc' # "exited" =>
            UNCHANGED <<busVars, lockVars, watchVars, modules, module_configs,
                        sys_modules, records, recIdx, running, reload_context,
                        published, startLog, shutItems, shutLog, budget, appReq>>]_vars

\* C37 witness: the second call of shutdown() has returned and the process
\* ends; the first call had invoked a shutdown hook and published its event.
C37_Witness ==
    /\ appPc = "process_exit"
    /\ shutLog # <<>>
    /\ Cardinality(ShutdownEvents) = 1

----------------------------------------------------------------------------
\* Claims about the bus during shutdown (checked under SpecStop)

\* one step of the program, seen from the bus
ShutdownBusSteps ==
    \* app.shutdown is published with every subscription still in place and
    \* before the shutdown has called any hook
    /\ ShutdownEvents' # ShutdownEvents =>
          /\ subscribers = registered
          /\ subscribers' = subscribers
          /\ shutLog = <<>>
    \* the hooks are called after the event, with the bus not yet cleared
    /\ shutLog' # shutLog => (ShutdownEvents # {} /\ subscribers = registered)
    \* subscriptions are dropped only by the clear that ends the shutdown
    /\ (\E T \in Topics : Len(subscribers'[T]) < Len(subscribers[T])) =>
          (appPc = "s_bus" /\ ShutdownEvents # {} /\ shutItems = <<>>)
    \* and that clear leaves no subscriber on any topic
    /\ (appPc = "s_bus" /\ appPc' # "s_bus") =>
          \A T \in Topics : Len(subscribers'[T]) = 0

\* C38: Application.shutdown publishes app.shutdown while the subscriptions
\* the modules made are all registered, before it calls a shutdown hook and
\* before it clears the bus; when the bus has been cleared every topic has 0
\* subscribers.
C38_ShutdownEventBeforeClear ==
    /\ [][ShutdownBusSteps]_vars
    /\ [](appPc \in {"exited", "process_exit"} => \A T \in Topics : SubscriberCount(T) = 0)

\* C38 witness: app.shutdown has been published, a module's subscription is
\* registered and the hook of a loaded module is still to be called.
C38_Witness ==
    /\ appPc = "s_hooks"
    /\ ShutdownEvents # {}
    /\ \E T \in Topics : subscribers[T] # <<>>
    /\ shutItems # <<>>
    /\ shutLog = <<>>

----------------------------------------------------------------------------
\* Claims about calls for a name that is not loaded (checked under SpecSeq)

\* thread t enters reload_module or unload_module in this step
EntersReloadOrUnload(t) ==
    /\ pc[t] = "idle"
    /\ pc'[t] \in {"r_shutdown", "r_load", "r_init", "r_install", "r_rollback",
                   "r_reinit", "r_done", "u_shutdown", "u_remove", "u_done"}

\* what a call for a name that is not loaded does
NotLoadedCallSteps ==
    \A t \in Threads :
        /\ (EntersReloadOrUnload(t) /\ nm'[t] \notin ListLoadedNames) =>
              /\ pc'[t] \in {"r_done", "u_done"}
              /\ ret'[t] = "False"
              /\ calls'[t] = <<>>
              /\ new_module'[t] = Absent
              /\ seen'[t] = None
              /\ UNCHANGED <<modules, module_configs, sys_modules, inst>>
        \* the call that returned without a module in hand only returns
        /\ (pc[t] \in {"r_done", "u_done"} /\ old_module[t] = Absent /\ pc'[t] # pc[t]) =>
              /\ pc'[t] = "idle"
              /\ UNCHANGED <<modules, module_configs, sys_modules>>

\* C39: reload_module(name) and unload_module(name) for a name that is not
\* loaded return False at once: no hook is called, no module is created, and
\* _modules, _module_configs and sys.modules stay as they were.
C39_NotLoadedIsRefused == [][NotLoadedCallSteps]_vars

\* C39 witness: reload_module of a name that is not loaded has returned False
\* while the other module is loaded.
C39_Witness ==
    /\ pc["app"] = "r_done"
    /\ nm["app"] \notin ListLoadedNames
    /\ ret["app"] = "False"
    /\ ListLoadedNames # {}

\* the phases of reload_module() past the test of line 220
ReloadPhases == {"r_shutdown", "r_load", "r_init", "r_install", "r_rollback", "r_reinit"}

\* C40: with the calls made one at a time, the names with an instance are the
\* names with a stored configuration (keys of _modules = keys of
\* _module_configs); so a reload that got past the test of line 220 holds
\* the old instance for the rollback.
C40_RegistryKeysAgree ==
    /\ ListLoadedNames = module_configs
    /\ \A t \in Threads : pc[t] \in ReloadPhases =>
          /\ nm[t] \in module_configs
          /\ old_module[t] # Absent

\* C40 witness: a module was unloaded while the application runs, the
\* other one is still loaded, and the two key sets are the same.
C40_Witness ==
    /\ appPc = "running"
    /\ pc["app"] = "u_done"
    /\ ret["app"] = "True"
    /\ ListLoadedNames # {}
    /\ ListLoadedNames = module_configs

====
